---- MODULE Spec2Model ----
(***************************************************************************)
(* Model of the ticket workflow of the mospolytech support bot:            *)
(*   app/services/ticket_service.py  (TicketService)                       *)
(*   app/handlers/tickets.py         (user side handlers)                  *)
(*   app/handlers/admin.py           (staff side handlers)                 *)
(*   app/keyboards/tickets.py        (buttons offered for a ticket)        *)
(*                                                                         *)
(* Texts are sequences of tokens (strings): a user text is a sequence of   *)
(* one-character tokens, an f-string is the concatenation of its pieces.   *)
(* The tables `tickets` and `ticket_messages` are sequences in insertion   *)
(* order; the primary key of a row is its index (autoincrement, rows are   *)
(* never deleted).                                                         *)
(***************************************************************************)
EXTENDS Integers, Sequences, FiniteSets, TLC

VARIABLES
    users,      \* table users: id -> row
    tickets,    \* table tickets: sequence of rows, id = index
    messages,   \* table ticket_messages: sequence of rows, id = index
    fsm,        \* aiogram FSM storage: user id -> [state, data]
    transport,  \* Telegram: user id -> how bot.send_message to the user ends
    dispatch,   \* the running dispatch of a broadcast or of a notification
    attempts,   \* the calls of bot.send_message the dispatch has made
    dashboard,  \* the counts and the summary of get_dashboard_summary
    favorites,  \* table user_favorites: sequence of rows
    fav_tasks,  \* the running favorites handlers: task -> its position
    fav_log,    \* what the finished favorites handlers returned, in order
    faq_items,  \* table faq_items: sequence of rows, id = index
    documents,  \* table documents: sequence of rows, id = index
    search_calls,   \* the calls of FAQService.search and DocumentService.search
    request_logs,   \* table request_logs: sequence of rows
    search_reply,   \* what the last search handler answered
    faq_stats, \* table faq_items, the counters: id -> row
    faq_tasks, \* the running FAQ handlers: task -> its position
    faq_done, \* the FAQ handlers that have ended, by what they count
    handled, \* the user AuthMiddleware gave to the last handler
    clock, \* time.time(), in ticks of an eighth of a second
    user_timestamps, \* ThrottlingMiddleware.user_timestamps
    user_violations, \* ThrottlingMiddleware.user_violations
    throttled, \* what ThrottlingMiddleware did with each event, in order
    wizard \* FSM data of the ticket creation wizard: user id -> data

ticket_vars == <<users, tickets, messages, fsm>>
notify_vars == <<transport, dispatch, attempts>>
dashboard_vars == <<dashboard>>
favorite_vars == <<favorites, fav_tasks, fav_log>>
search_vars == <<faq_items, documents, search_calls, request_logs, search_reply>>
counter_vars == <<faq_stats, faq_tasks, faq_done>>
auth_vars == <<handled>>
throttle_vars == <<clock, user_timestamps, user_violations, throttled>>
wizard_vars == <<wizard>>

vars == <<ticket_vars, notify_vars, dashboard_vars, favorite_vars, search_vars,
    counter_vars,
    auth_vars,
    throttle_vars,
    wizard_vars>>

\* What the handlers of the ticket workflow never touch
not_ticket_vars == <<notify_vars, dashboard_vars, favorite_vars, search_vars,
    counter_vars,
    auth_vars,
    throttle_vars,
    wizard_vars>>

\* What the dispatch of notifications never touches, beside the tables of
\* the tickets
not_notify_vars == <<dashboard_vars, favorite_vars, search_vars,
    counter_vars,
    auth_vars,
    throttle_vars,
    wizard_vars>>

\* What the dashboard never touches
not_dashboard_vars == <<ticket_vars, notify_vars, favorite_vars, search_vars,
    counter_vars,
    auth_vars,
    throttle_vars,
    wizard_vars>>

\* What the favorites handlers never touch
not_favorite_vars == <<ticket_vars, notify_vars, dashboard_vars, search_vars,
    counter_vars,
    auth_vars,
    throttle_vars,
    wizard_vars>>

\* What the search handlers never touch, beside the tables of the tickets
not_search_vars == <<notify_vars, dashboard_vars, favorite_vars,
    counter_vars,
    auth_vars,
    throttle_vars,
    wizard_vars>>

\* What the FAQ counters are never touched with
not_counter_vars == <<ticket_vars, notify_vars, dashboard_vars, favorite_vars, search_vars,
    auth_vars,
    throttle_vars,
    wizard_vars>>

\* What an event that passes AuthMiddleware never touches, beside the tables of the users and of the FAQ
not_auth_vars == <<notify_vars, dashboard_vars, favorite_vars, search_vars,
    throttle_vars,
    wizard_vars>>

\* What ThrottlingMiddleware never touches
not_throttle_vars == <<ticket_vars, notify_vars, dashboard_vars, favorite_vars, search_vars, counter_vars, auth_vars,
    wizard_vars>>

\* What the ticket creation wizard never touches, beside the tables of the tickets
not_wizard_vars == <<notify_vars, dashboard_vars, favorite_vars, search_vars, counter_vars, auth_vars, throttle_vars>>

-----------------------------------------------------------------------------
(* Bounds of the model *)

MaxMessages == 3    \* rows of table ticket_messages
MaxCount == 16      \* rows of table request_logs of one day
MaxCalls == 4       \* favorites handlers started
MaxItems == 3       \* rows of table faq_items, of table documents
MaxSearches == 1    \* calls of the search functions
MaxHandlers == 3    \* FAQ view and rating handlers started
MaxEvents == 5      \* events that reach ThrottlingMiddleware

-----------------------------------------------------------------------------
(* Enumerations and data *)

\* models.py UserRole
UserRole == {"student", "teacher", "moderator", "admin", "anonymous"}

\* models.py TicketStatus (values of the enum)
OPEN == "open"
IN_PROGRESS == "in_progress"
WAITING == "waiting"
RESOLVED == "resolved"
CLOSED == "closed"
TicketStatus == {OPEN, IN_PROGRESS, WAITING, RESOLVED, CLOSED}

\* None for an integer column or an integer FSM value
NoId == 0
\* None / a value of utcnow() for Ticket.resolved_at
NoTime == "None"
Stamp == "utcnow"
\* None for the optional comment of update_status
NoComment == <<>>

UserIds == {1, 2}

\* Data the creation wizard has collected when confirm_ticket runs.
Subjects == {<<"s", "u", "b", "j", "1">>}
Descriptions == {<<"d", "e", "s", "c", "r", "i", "p", "t", "_", "1">>}
Categories == {"schedule"}

\* Suffixes that random.choices(string.digits, k=4) can give.  With one
\* suffix the table holds at most one ticket of the month: a second creation
\* collides with the first.
Suffixes == {"0000"}

\* Texts of a message event (message.text), before strip()
MessageTexts == {<<"a">>, <<" ", "a", "b", " ">>}

Whitespace == {" "}

RECURSIVE lstrip(_)
lstrip(s) ==
    IF s # <<>> /\ Head(s) \in Whitespace THEN lstrip(Tail(s)) ELSE s

RECURSIVE rstrip(_)
rstrip(s) ==
    IF s # <<>> /\ s[Len(s)] \in Whitespace
    THEN rstrip(SubSeq(s, 1, Len(s) - 1))
    ELSE s

\* str.strip()
strip(s) == rstrip(lstrip(s))

\* s[:n]
Truncate(s, n) == IF Len(s) > n THEN SubSeq(s, 1, n) ELSE s

\* s[-n:]
LastN(s, n) == IF Len(s) > n THEN SubSeq(s, Len(s) - n + 1, Len(s)) ELSE s

-----------------------------------------------------------------------------
(* Users *)

\* User.display_name
display_name(u) ==
    IF u.full_name # "" THEN u.full_name
    ELSE IF u.first_name # ""
         THEN (IF u.last_name # "" THEN u.first_name \o " " \o u.last_name
               ELSE u.first_name)
    ELSE IF u.username # "" THEN "@" \o u.username
    ELSE "User " \o ToString(u.telegram_id)

\* admin.py admin_filter
admin_filter(user) == users[user].role \in {"admin", "moderator"}

\* tickets.py: user.role.value in ["admin", "moderator"]
is_staff(user) == users[user].role \in {"admin", "moderator"}

-----------------------------------------------------------------------------
(* TicketService *)

\* select(Ticket).where(Ticket.id == ticket_id) ... scalar_one_or_none()
TicketExists(ticket_id) == ticket_id \in 1..Len(tickets)

\* TicketService._generate_ticket_number: prefix of the month, random suffix
ticket_number_of(suffix) == "T202611-" \o suffix

\* A column ticket_number without unique=True: no INSERT ever fails
NumberTaken_never(number) == FALSE

\* unique=True on Ticket.ticket_number: the INSERT fails on a duplicate
NumberTaken(number) ==
    \E i \in 1..Len(tickets) : tickets[i].ticket_number = number

\* f"Статус изменён: {old} -> {new}" [+ f"\n\nКомментарий: {comment}"]
status_msg(old_status, new_status, comment) ==
    <<"Status changed: ", old_status, " -> ", new_status>>
    \o (IF comment # NoComment THEN <<"\n\nComment: ">> \o comment ELSE <<>>)

TicketMessage(ticket_id, user_id, message, is_from_staff, is_internal) ==
    [ticket_id |-> ticket_id, user_id |-> user_id, message |-> message,
     is_from_staff |-> is_from_staff, is_internal |-> is_internal]

\* TicketService.create_ticket: the ticket row, then its first message
create_ticket(user_id, subject, description, category, is_anonymous, number) ==
    /\ tickets' = Append(tickets,
            [ticket_number |-> number,
             user_id |-> user_id,
             assigned_to_id |-> NoId,
             subject |-> subject,
             description |-> description,
             category |-> category,
             priority |-> 1,
             is_anonymous |-> is_anonymous,
             status |-> OPEN,
             resolved_at |-> NoTime])
    /\ messages' = Append(messages,
            TicketMessage(Len(tickets) + 1, user_id, description, FALSE, FALSE))

\* update_status reading old_status after the assignment of the new status:
\* the message records new -> new
update_status_old_after(ticket_id, new_status, user_id, comment) ==
    IF ~TicketExists(ticket_id)
    THEN UNCHANGED <<tickets, messages>>
    ELSE /\ tickets' = [tickets EXCEPT
                ![ticket_id].status = new_status,
                ![ticket_id].resolved_at =
                    IF new_status \in {RESOLVED, CLOSED} THEN Stamp ELSE @]
         /\ messages' = Append(messages,
                TicketMessage(ticket_id, user_id,
                              status_msg(new_status, new_status, comment),
                              TRUE, FALSE))

\* TicketService.update_status
update_status(ticket_id, new_status, user_id, comment) ==
    IF ~TicketExists(ticket_id)
    THEN UNCHANGED <<tickets, messages>>
    ELSE LET old_status == tickets[ticket_id].status IN
         /\ tickets' = [tickets EXCEPT
                ![ticket_id].status = new_status,
                ![ticket_id].resolved_at =
                    IF new_status \in {RESOLVED, CLOSED} THEN Stamp ELSE @]
         /\ messages' = Append(messages,
                TicketMessage(ticket_id, user_id,
                              status_msg(old_status, new_status, comment),
                              TRUE, FALSE))

\* assign_ticket moving every ticket to IN_PROGRESS, whatever its status
assign_ticket_always_advances(ticket_id, assigned_to_id) ==
    /\ IF TicketExists(ticket_id)
       THEN tickets' = [tickets EXCEPT
                ![ticket_id].assigned_to_id = assigned_to_id,
                ![ticket_id].status = IN_PROGRESS]
       ELSE UNCHANGED tickets
    /\ UNCHANGED messages

\* TicketService.assign_ticket
assign_ticket(ticket_id, assigned_to_id) ==
    /\ IF TicketExists(ticket_id)
       THEN tickets' = [tickets EXCEPT
                ![ticket_id].assigned_to_id = assigned_to_id,
                ![ticket_id].status = IF @ = OPEN THEN IN_PROGRESS ELSE @]
       ELSE UNCHANGED tickets
    /\ UNCHANGED messages

\* add_message whose status rule ignores who the message is from
add_message_any_author(ticket_id, user_id, message, is_from_staff, is_internal) ==
    /\ IF TicketExists(ticket_id)
       THEN tickets' = [tickets EXCEPT ![ticket_id].status =
                IF @ \in {OPEN, WAITING} THEN IN_PROGRESS ELSE @]
       ELSE UNCHANGED tickets
    /\ messages' = Append(messages,
            TicketMessage(ticket_id, user_id, message, is_from_staff, is_internal))

\* TicketService.add_message: the status rule, then the INSERT of the message,
\* whether or not the ticket was found
add_message(ticket_id, user_id, message, is_from_staff, is_internal) ==
    /\ IF TicketExists(ticket_id)
       THEN tickets' = [tickets EXCEPT ![ticket_id].status =
                IF is_from_staff
                THEN (IF @ = OPEN THEN IN_PROGRESS ELSE @)
                ELSE (IF @ = WAITING THEN IN_PROGRESS ELSE @)]
       ELSE UNCHANGED tickets
    /\ messages' = Append(messages,
            TicketMessage(ticket_id, user_id, message, is_from_staff, is_internal))

\* TicketService.get_messages, on a store `msgs`
get_messages(msgs, ticket_id, include_internal) ==
    LET Keep(m) == /\ m.ticket_id = ticket_id
                   /\ (include_internal \/ ~m.is_internal)
    IN SelectSeq(msgs, Keep)

-----------------------------------------------------------------------------
(* What the handlers show *)

\* tickets.py callback_view_ticket: status_names
status_names(status) ==
    CASE status = OPEN -> "Open"
      [] status = IN_PROGRESS -> "In progress"
      [] status = WAITING -> "Waiting for reply"
      [] status = RESOLVED -> "Resolved"
      [] status = CLOSED -> "Closed"

\* tickets.py callback_view_ticket: priority_names.get(priority, ...)
priority_names(priority) ==
    CASE priority = 1 -> "Low"
      [] priority = 2 -> "Medium"
      [] priority = 3 -> "High"
      [] OTHER -> "Normal"

\* tickets.py callback_view_ticket: the loop over messages[-5:]
RECURSIVE view_thread(_, _)
view_thread(msgs, user) ==
    IF msgs = <<>> THEN <<>>
    ELSE LET msg == Head(msgs)
             sender == IF msg.is_from_staff THEN "Support"
                       ELSE IF msg.user_id = user THEN "You"
                       ELSE "Support"
         IN <<sender, ": ">> \o Truncate(msg.message, 300)
            \o (IF Len(msg.message) > 300 THEN <<"...">> ELSE <<>>)
            \o <<"\n\n">>
            \o view_thread(Tail(msgs), user)

\* tickets.py callback_view_ticket: the text the ticket is shown as
\* (created_at and the time of a message are not modelled)
view_text(ticket, msgs, user) ==
    <<"Ticket ", ticket.ticket_number, "\n\nSubject: ">> \o ticket.subject
    \o <<"\nStatus: ", status_names(ticket.status),
         "\nPriority: ", priority_names(ticket.priority)>>
    \o (IF ticket.assigned_to_id # NoId
        THEN <<"\nAssignee: ", display_name(users[ticket.assigned_to_id])>>
        ELSE <<>>)
    \o (IF ticket.resolved_at # NoTime
        THEN <<"\nResolved: ", ticket.resolved_at>>
        ELSE <<>>)
    \o <<"\n----\n\n">>
    \o view_thread(LastN(msgs, 5), user)

\* admin.py callback_admin_view_ticket: the loop over messages[-3:]
RECURSIVE admin_view_thread(_, _)
admin_view_thread(msgs, ticket) ==
    IF msgs = <<>> THEN <<>>
    ELSE LET msg == Head(msgs)
             sender == IF ~msg.is_from_staff
                       THEN display_name(users[ticket.user_id])
                       ELSE "Support"
         IN <<sender>> \o (IF msg.is_internal THEN <<" (internal)">> ELSE <<>>)
            \o <<":\n">> \o Truncate(msg.message, 200) \o <<"\n\n">>
            \o admin_view_thread(Tail(msgs), ticket)

\* admin.py callback_admin_view_ticket: the text the ticket is shown as
admin_view_text(ticket, msgs) ==
    <<"Ticket ", ticket.ticket_number, "\n\nSubject: ">> \o ticket.subject
    \o <<"\nStatus: ", status_names(ticket.status),
         "\nPriority: ", IF ticket.priority = 3 THEN "red"
                          ELSE IF ticket.priority = 2 THEN "yellow"
                          ELSE "green">>
    \o (IF ~ticket.is_anonymous
        THEN <<"\nFrom: ", display_name(users[ticket.user_id])>>
             \o (IF users[ticket.user_id].group_name # ""
                 THEN <<"\n   Group: ", users[ticket.user_id].group_name>>
                 ELSE <<>>)
        ELSE <<"\nFrom: ", "Anonymous">>)
    \o (IF ticket.assigned_to_id # NoId
        THEN <<"\nAssignee: ", display_name(users[ticket.assigned_to_id])>>
        ELSE <<"\nAssignee: ", "not assigned">>)
    \o <<"\n\nDescription:\n">> \o Truncate(ticket.description, 500)
    \o (IF msgs # <<>>
        THEN <<"\n----\nLast messages:\n\n">>
             \o admin_view_thread(LastN(msgs, 3), ticket)
        ELSE <<>>)

\* keyboards/tickets.py TicketKeyboards.ticket_actions: the callbacks offered
ticket_actions(ticket_id, ticket, staff) ==
    (IF ticket.status \notin {RESOLVED, CLOSED}
     THEN {<<"ticket_reply", ticket_id>>} ELSE {})
    \cup (IF ticket.status = RESOLVED
          THEN {<<"ticket_close", ticket_id>>, <<"ticket_reopen", ticket_id>>}
          ELSE {})
    \cup (IF staff
          THEN {<<"admin_ticket_status", ticket_id>>,
                <<"admin_ticket_assign", ticket_id>>}
          ELSE {})
    \cup {<<"tickets_list", NoId>>}

\* keyboards/tickets.py TicketKeyboards.status_change: the statuses offered
status_change == {IN_PROGRESS, WAITING, RESOLVED, CLOSED}

-----------------------------------------------------------------------------
(* Handlers.  The answer of a handler is a function of the store and of the  *)
(* event: it is the value of the handler's `_response` operator.  A handler  *)
(* that only reads the store is an action that changes nothing.              *)

Response(result, text) == [result |-> result, text |-> text]

\* FSMContext of a user with no state and no data (after state.clear())
Cleared == [state |-> "None", reply_ticket_id |-> NoId,
            admin_reply_ticket_id |-> NoId]

\* Ticket ids a callback can carry: every stored id and the next one, which
\* is not stored.
TicketIds == 1..(Len(tickets) + 1)

\* No dispatch is running
NoDispatch == [kind |-> "none", pc |-> "idle", targets |-> <<>>, i |-> 1,
               sent_count |-> 0, failed |-> 0, returned |-> <<>>]

NotifyIdle ==
    /\ transport = <<>>
    /\ dispatch = NoDispatch
    /\ attempts = <<>>

\* No summary has been asked for
NoSummary == [requests_today |-> 0, requests_yesterday |-> 0,
              requests_change_percent |-> <<>>]

DashboardIdle == dashboard = NoSummary

\* No favorite, no favorites handler
FavoritesIdle ==
    /\ favorites = <<>>
    /\ fav_tasks = <<>>
    /\ fav_log = <<>>

\* Nothing to search in, no search made
SearchIdle ==
    /\ faq_items = <<>>
    /\ documents = <<>>
    /\ search_calls = <<>>
    /\ request_logs = <<>>
    /\ search_reply = ""

\* No FAQ item is counted, no FAQ handler runs
CountersIdle ==
    /\ faq_stats = <<>>
    /\ faq_tasks = <<>>
    /\ faq_done = <<>>

\* No event has passed AuthMiddleware
NoEvent == [telegram_id |-> 0, role |-> "", is_active |-> FALSE,
            restored |-> FALSE, handler |-> ""]

AuthIdle == handled = NoEvent

\* No event has reached ThrottlingMiddleware
ThrottleIdle ==
    /\ clock = 0
    /\ user_timestamps = <<>>
    /\ user_violations = <<>>
    /\ throttled = <<>>

\* No data of the creation wizard is kept: its steps are inputs of confirm_ticket
WizardIdle == wizard = <<>>

\* No user, no ticket
TicketIdle ==
    /\ users = <<>>
    /\ tickets = <<>>
    /\ messages = <<>>
    /\ fsm = <<>>

Init ==
    /\ \E role2 \in {"teacher", "moderator", "admin"} :
        users = [u \in UserIds |->
            [telegram_id |-> 100 + u,
             role |-> IF u = 1 THEN "student" ELSE role2,
             full_name |-> IF u = 1 THEN "Ivanov Ivan" ELSE "",
             first_name |-> IF u = 2 THEN "Petr" ELSE "",
             last_name |-> "",
             username |-> "",
             group_name |-> IF u = 1 THEN "221-361" ELSE ""]]
    /\ tickets = <<>>
    /\ messages = <<>>
    /\ fsm = [u \in UserIds |-> Cleared]
    /\ NotifyIdle
    /\ DashboardIdle
    /\ FavoritesIdle
    /\ SearchIdle
    /\ CountersIdle
    /\ AuthIdle
    /\ ThrottleIdle
    /\ WizardIdle

\* tickets.py confirm_ticket.  The steps of the wizard that collect subject,
\* description, category and the anonymous flag are inputs here.
confirm_ticket(user, subject, description, category, is_anonymous, suffix) ==
    /\ Len(messages) < MaxMessages
    /\ LET number == ticket_number_of(suffix) IN
       IF NumberTaken(number)
       THEN \* IntegrityError at flush: no commit, the state is not cleared
            UNCHANGED <<tickets, messages, fsm>>
       ELSE /\ create_ticket(user, subject, description, category,
                             is_anonymous, number)
            /\ fsm' = [fsm EXCEPT ![user] = Cleared]
    /\ UNCHANGED users

\* callback_view_ticket without the check of owner and role
view_ticket_response_unchecked(user, ticket_id) ==
    IF ~TicketExists(ticket_id)
    THEN Response("not_found", <<"Ticket not found">>)
    ELSE Response("shown",
                  view_text(tickets[ticket_id],
                            get_messages(messages, ticket_id, FALSE), user))

\* tickets.py callback_view_ticket: what the user is answered
view_ticket_response(user, ticket_id) ==
    IF ~TicketExists(ticket_id)
    THEN Response("not_found", <<"Ticket not found">>)
    ELSE IF tickets[ticket_id].user_id # user /\ ~is_staff(user)
    THEN Response("denied", <<"No access to this ticket">>)
    ELSE Response("shown",
                  view_text(tickets[ticket_id],
                            get_messages(messages, ticket_id, FALSE), user))

\* tickets.py callback_view_ticket
callback_view_ticket(user, ticket_id) ==
    /\ view_ticket_response(user, ticket_id).result
            \in {"not_found", "denied", "shown"}
    /\ UNCHANGED <<users, tickets, messages, fsm>>

\* admin.py callback_admin_view_ticket: what the user is answered
admin_view_ticket_response(user, ticket_id) ==
    IF ~admin_filter(user)
    THEN Response("ignored", <<>>)
    ELSE IF ~TicketExists(ticket_id)
    THEN Response("not_found", <<"Ticket not found">>)
    ELSE Response("shown",
                  admin_view_text(tickets[ticket_id],
                                  get_messages(messages, ticket_id, TRUE)))

\* admin.py callback_admin_view_ticket
callback_admin_view_ticket(user, ticket_id) ==
    /\ admin_view_ticket_response(user, ticket_id).result
            \in {"ignored", "not_found", "shown"}
    /\ UNCHANGED <<users, tickets, messages, fsm>>

\* tickets.py start_ticket_reply
start_ticket_reply(user, ticket_id) ==
    /\ fsm' = [fsm EXCEPT ![user].reply_ticket_id = ticket_id,
                          ![user].state = "replying"]
    /\ UNCHANGED <<users, tickets, messages>>

\* tickets.py process_ticket_reply
process_ticket_reply(user, text) ==
    /\ fsm[user].state = "replying"
    /\ LET ticket_id == fsm[user].reply_ticket_id
           reply_text == strip(text)
       IN
       IF ticket_id = NoId
       THEN /\ fsm' = [fsm EXCEPT ![user] = Cleared]
            /\ UNCHANGED <<tickets, messages>>
       ELSE IF Len(reply_text) < 2
       THEN UNCHANGED <<tickets, messages, fsm>>
       ELSE IF ~TicketExists(ticket_id)
       THEN /\ fsm' = [fsm EXCEPT ![user] = Cleared]
            /\ UNCHANGED <<tickets, messages>>
       ELSE /\ Len(messages) < MaxMessages
            /\ add_message(ticket_id, user, reply_text, is_staff(user), FALSE)
            /\ fsm' = [fsm EXCEPT ![user] = Cleared]
    /\ UNCHANGED users

\* admin.py callback_admin_ticket_reply
callback_admin_ticket_reply(user, ticket_id) ==
    /\ IF ~admin_filter(user)
       THEN UNCHANGED fsm
       ELSE fsm' = [fsm EXCEPT ![user].admin_reply_ticket_id = ticket_id,
                               ![user].state = "ticket_reply"]
    /\ UNCHANGED <<users, tickets, messages>>

\* admin.py process_admin_ticket_reply.  The INSERT of a message whose
\* ticket_id matches no ticket depends on the database: SQLite (the default
\* DATABASE_URL, foreign keys not enforced) stores the row; a database that
\* enforces the foreign key raises IntegrityError at flush, nothing is
\* committed and the state is not cleared.
process_admin_ticket_reply(user, text) ==
    /\ fsm[user].state = "ticket_reply"
    /\ LET ticket_id == fsm[user].admin_reply_ticket_id
           reply_text == strip(text)
       IN
       IF ticket_id = NoId
       THEN /\ fsm' = [fsm EXCEPT ![user] = Cleared]
            /\ UNCHANGED <<tickets, messages>>
       ELSE \/ /\ Len(messages) < MaxMessages
               /\ add_message(ticket_id, user, reply_text, TRUE, FALSE)
               /\ fsm' = [fsm EXCEPT ![user] = Cleared]
            \/ /\ ~TicketExists(ticket_id)
               /\ UNCHANGED <<tickets, messages, fsm>>
    /\ UNCHANGED users

\* tickets.py close_ticket
close_ticket(user, ticket_id) ==
    /\ TicketExists(ticket_id) => Len(messages) < MaxMessages
    /\ update_status(ticket_id, CLOSED, user, NoComment)
    /\ UNCHANGED <<users, fsm>>

\* "Переоткрыто пользователем"
ReopenComment == <<"Reopened by user">>

\* tickets.py reopen_ticket
reopen_ticket(user, ticket_id) ==
    /\ TicketExists(ticket_id) => Len(messages) < MaxMessages
    /\ update_status(ticket_id, OPEN, user, ReopenComment)
    /\ UNCHANGED <<users, fsm>>

\* admin.py callback_set_ticket_status
callback_set_ticket_status(user, ticket_id, new_status) ==
    /\ IF ~admin_filter(user)
       THEN UNCHANGED <<tickets, messages>>
       ELSE /\ TicketExists(ticket_id) => Len(messages) < MaxMessages
            /\ update_status(ticket_id, new_status, user, NoComment)
    /\ UNCHANGED <<users, fsm>>

\* admin.py callback_admin_ticket_assign
callback_admin_ticket_assign(user, ticket_id) ==
    /\ IF ~admin_filter(user)
       THEN UNCHANGED <<tickets, messages>>
       ELSE assign_ticket(ticket_id, user)
    /\ UNCHANGED <<users, fsm>>

\* NotificationService.send_to_moderators: the users it sends to
send_to_moderators ==
    {u \in DOMAIN users : users[u].role \in {"admin", "moderator"}}

\* The users a handler of tickets.py sends a notification to: confirm_ticket
\* calls notify_new_ticket, no other handler calls NotificationService
tickets_notified(handler) ==
    IF handler = "confirm_ticket" THEN send_to_moderators ELSE {}

\* The users a handler of admin.py sends a notification to about the ticket:
\* process_admin_ticket_reply calls notify_ticket_response for the ticket it
\* finds, no other ticket handler calls NotificationService
admin_notified(handler, ticket_id) ==
    IF handler = "process_admin_ticket_reply" /\ TicketExists(ticket_id)
    THEN {tickets[ticket_id].user_id}
    ELSE {}

-----------------------------------------------------------------------------
(* Specification *)

ConfirmTicket ==
    /\ \E user \in UserIds, subject \in Subjects, description \in Descriptions,
          category \in Categories, is_anonymous \in BOOLEAN, suffix \in Suffixes :
           confirm_ticket(user, subject, description, category, is_anonymous, suffix)
    /\ UNCHANGED not_ticket_vars

ViewTicket ==
    /\ \E user \in UserIds, ticket_id \in TicketIds :
           callback_view_ticket(user, ticket_id)
    /\ UNCHANGED not_ticket_vars

AdminViewTicket ==
    /\ \E user \in UserIds, ticket_id \in TicketIds :
           callback_admin_view_ticket(user, ticket_id)
    /\ UNCHANGED not_ticket_vars

StartTicketReply ==
    /\ \E user \in UserIds, ticket_id \in TicketIds :
           start_ticket_reply(user, ticket_id)
    /\ UNCHANGED not_ticket_vars

ProcessTicketReply ==
    /\ \E user \in UserIds, text \in MessageTexts :
           process_ticket_reply(user, text)
    /\ UNCHANGED not_ticket_vars

AdminTicketReply ==
    /\ \E user \in UserIds, ticket_id \in TicketIds :
           callback_admin_ticket_reply(user, ticket_id)
    /\ UNCHANGED not_ticket_vars

ProcessAdminTicketReply ==
    /\ \E user \in UserIds, text \in MessageTexts :
           process_admin_ticket_reply(user, text)
    /\ UNCHANGED not_ticket_vars

CloseTicket ==
    /\ \E user \in UserIds, ticket_id \in TicketIds : close_ticket(user, ticket_id)
    /\ UNCHANGED not_ticket_vars

ReopenTicket ==
    /\ \E user \in UserIds, ticket_id \in TicketIds : reopen_ticket(user, ticket_id)
    /\ UNCHANGED not_ticket_vars

SetTicketStatus ==
    /\ \E user \in UserIds, ticket_id \in TicketIds, new_status \in status_change :
           callback_set_ticket_status(user, ticket_id, new_status)
    /\ UNCHANGED not_ticket_vars

AssignTicket ==
    /\ \E user \in UserIds, ticket_id \in TicketIds :
           callback_admin_ticket_assign(user, ticket_id)
    /\ UNCHANGED not_ticket_vars

Next ==
    \/ ConfirmTicket
    \/ ViewTicket
    \/ AdminViewTicket
    \/ StartTicketReply
    \/ ProcessTicketReply
    \/ AdminTicketReply
    \/ ProcessAdminTicketReply
    \/ CloseTicket
    \/ ReopenTicket
    \/ SetTicketStatus
    \/ AssignTicket

Spec == Init /\ [][Next]_vars

\* Ticket creations alone, the random suffix drawn from several values, so
\* that two creations can draw the same number and several tickets are stored
NumberSuffixes == {"0000", "0001", "0002"}

ConfirmTicketNumbered ==
    /\ \E user \in UserIds, subject \in Subjects, description \in Descriptions,
          category \in Categories, is_anonymous \in BOOLEAN,
          suffix \in NumberSuffixes :
           confirm_ticket(user, subject, description, category, is_anonymous, suffix)
    /\ UNCHANGED not_ticket_vars

NextNumbers == ConfirmTicketNumbered

SpecNumbers == Init /\ [][NextNumbers]_vars

-----------------------------------------------------------------------------
(* Notification dispatch: UserService.get_users_with_notifications,          *)
(* NotificationService and the broadcast handler of admin.py.  One step of   *)
(* a dispatch is one turn of its loop over the resolved users.               *)

\* Optional[...]: None, or a value
None == <<>>
Some(v) == <<v>>

NotifyUserIds == {1, 2, 3}

\* How bot.send_message ends: it returns, or raises one of the exceptions
\* NotificationService.send_notification tells apart
SendOutcomes == {"ok", "TelegramForbiddenError", "TelegramBadRequest",
                 "Exception"}

\* callback_data "broadcast:<target>" of AdminKeyboards.broadcast_targets
BroadcastTargets == {"all", "students", "teachers", "course"}

\* Values of Notification.target_role / target_group / target_course /
\* target_faculty: None, a value some user has, and values no user has
TargetRoles == {None, Some("student"), Some("dean")}
TargetGroups == {None, Some("221-361"), Some("")}
TargetCourses == {None, Some(2), Some(0)}
TargetFaculties == {None, Some("FIT")}

Notifications ==
    [target_role : TargetRoles, target_group : TargetGroups,
     target_course : TargetCourses, target_faculty : TargetFaculties]

\* The ids of table users, in the order of the table
UserIdSeq == [i \in 1..Len(users) |-> i]

\* `if value:` on an Optional[str] / Optional[int] / Optional[UserRole]
TruthyStr(opt) == opt # None /\ opt[1] # ""
TruthyInt(opt) == opt # None /\ opt[1] # 0

\* UserService.get_users_with_notifications; role is a UserRole or None
get_users_with_notifications(role, group_name, course, faculty) ==
    LET Keep(u) ==
            /\ users[u].is_active
            /\ users[u].notifications_enabled
            /\ (role # None) => users[u].role = role[1]
            /\ TruthyStr(group_name) => users[u].group_name = group_name[1]
            /\ TruthyInt(course) => users[u].course = course
            /\ TruthyStr(faculty) => users[u].faculty = faculty
    IN SelectSeq(UserIdSeq, Keep)

\* NotificationService.get_target_users; UserRole(target_role) raises
\* ValueError on a string that is no role, and the filter is then skipped
get_target_users(notification) ==
    LET Keep(u) ==
            /\ users[u].is_active
            /\ users[u].notifications_enabled
            /\ (TruthyStr(notification.target_role)
                /\ notification.target_role[1] \in UserRole)
               => users[u].role = notification.target_role[1]
            /\ TruthyStr(notification.target_group)
               => users[u].group_name = notification.target_group[1]
            /\ TruthyInt(notification.target_course)
               => users[u].course = notification.target_course
            /\ TruthyStr(notification.target_faculty)
               => users[u].faculty = notification.target_faculty
    IN SelectSeq(UserIdSeq, Keep)

\* admin.py callback_broadcast_confirm: the users of a target
broadcast_users(target) ==
    IF target = "all"
    THEN get_users_with_notifications(None, None, None, None)
    ELSE IF target = "students"
    THEN get_users_with_notifications(Some("student"), None, None, None)
    ELSE IF target = "teachers"
    THEN get_users_with_notifications(Some("teacher"), None, None, None)
    ELSE <<>>

\* A dispatch that has resolved its users and is about to enter its loop
Started(kind, targets) ==
    [kind |-> kind, pc |-> "loop", targets |-> targets, i |-> 1,
     sent_count |-> 0, failed |-> 0, returned |-> <<>>]

\* admin.py callback_broadcast_confirm, up to the loop
callback_broadcast_confirm(user, target) ==
    /\ dispatch.pc # "loop"
    /\ IF users[user].role # "admin"
       THEN UNCHANGED <<fsm, dispatch, attempts>>
       ELSE /\ fsm' = [fsm EXCEPT ![user] = Cleared]
            /\ dispatch' = Started("broadcast", broadcast_users(target))
            /\ attempts' = <<>>
    /\ UNCHANGED <<users, tickets, messages, transport>>

\* A loop that a failed send aborts: the remaining users are skipped
broadcast_send_aborting ==
    /\ dispatch.kind = "broadcast" /\ dispatch.pc = "loop"
    /\ dispatch.i <= Len(dispatch.targets)
    /\ LET u == dispatch.targets[dispatch.i] IN
       /\ attempts' = Append(attempts, users[u].telegram_id)
       /\ dispatch' =
            IF transport[u] = "ok"
            THEN [dispatch EXCEPT !.i = @ + 1, !.sent_count = @ + 1]
            ELSE [dispatch EXCEPT !.i = Len(dispatch.targets) + 1,
                                  !.failed = @ + 1]
    /\ UNCHANGED <<users, tickets, messages, fsm, transport>>

\* admin.py callback_broadcast_confirm: one turn of `for u in users`
broadcast_send ==
    /\ dispatch.kind = "broadcast" /\ dispatch.pc = "loop"
    /\ dispatch.i <= Len(dispatch.targets)
    /\ LET u == dispatch.targets[dispatch.i] IN
       /\ attempts' = Append(attempts, users[u].telegram_id)
       /\ dispatch' =
            IF transport[u] = "ok"
            THEN [dispatch EXCEPT !.i = @ + 1, !.sent_count = @ + 1]
            ELSE [dispatch EXCEPT !.i = @ + 1, !.failed = @ + 1]
    /\ UNCHANGED <<users, tickets, messages, fsm, transport>>

\* admin.py callback_broadcast_confirm: after the loop, the tally is shown
broadcast_finish ==
    /\ dispatch.kind = "broadcast" /\ dispatch.pc = "loop"
    /\ dispatch.i > Len(dispatch.targets)
    /\ dispatch' = [dispatch EXCEPT
            !.pc = "done",
            !.returned = <<dispatch.sent_count, dispatch.failed>>]
    /\ UNCHANGED <<users, tickets, messages, fsm, transport, attempts>>

\* NotificationService.send_notification, up to the loop
send_notification(notification) ==
    /\ dispatch.pc # "loop"
    /\ dispatch' = Started("notification", get_target_users(notification))
    /\ attempts' = <<>>
    /\ UNCHANGED <<users, tickets, messages, fsm, transport>>

\* NotificationService.send_notification: one turn of `for user in users`
notification_send ==
    /\ dispatch.kind = "notification" /\ dispatch.pc = "loop"
    /\ dispatch.i <= Len(dispatch.targets)
    /\ LET u == dispatch.targets[dispatch.i] IN
       /\ attempts' = Append(attempts, users[u].telegram_id)
       /\ dispatch' =
            IF transport[u] = "ok"
            THEN [dispatch EXCEPT !.i = @ + 1, !.sent_count = @ + 1]
            ELSE [dispatch EXCEPT !.i = @ + 1]
       /\ users' =
            IF transport[u] = "TelegramForbiddenError"
            THEN [users EXCEPT ![u].is_active = FALSE]
            ELSE users
    /\ UNCHANGED <<tickets, messages, fsm, transport>>

\* NotificationService.send_notification: after the loop, sent_count is
\* stored on the notification and returned
notification_finish ==
    /\ dispatch.kind = "notification" /\ dispatch.pc = "loop"
    /\ dispatch.i > Len(dispatch.targets)
    /\ dispatch' = [dispatch EXCEPT
            !.pc = "done",
            !.returned = <<dispatch.sent_count>>]
    /\ UNCHANGED <<users, tickets, messages, fsm, transport, attempts>>

\* Table users with an admin, a student and a teacher; who has blocked the
\* bot or is unreachable is the choice of `transport`
InitNotify ==
    /\ \E active2, enabled3 \in BOOLEAN :
        users = [u \in NotifyUserIds |->
            [telegram_id |-> 100 + u,
             role |-> IF u = 1 THEN "admin"
                      ELSE IF u = 2 THEN "student" ELSE "teacher",
             full_name |-> "", first_name |-> "", last_name |-> "",
             username |-> "",
             group_name |-> IF u = 2 THEN "221-361" ELSE "",
             course |-> IF u = 2 THEN Some(2) ELSE None,
             faculty |-> IF u = 1 THEN None ELSE Some("FIT"),
             is_active |-> IF u = 2 THEN active2 ELSE TRUE,
             notifications_enabled |-> IF u = 3 THEN enabled3 ELSE TRUE]]
    /\ tickets = <<>>
    /\ messages = <<>>
    /\ fsm = [u \in NotifyUserIds |-> Cleared]
    /\ transport \in [NotifyUserIds -> SendOutcomes]
    /\ dispatch = NoDispatch
    /\ attempts = <<>>
    /\ DashboardIdle
    /\ FavoritesIdle
    /\ SearchIdle
    /\ CountersIdle
    /\ AuthIdle
    /\ ThrottleIdle
    /\ WizardIdle

BroadcastConfirm ==
    /\ \E user \in NotifyUserIds, target \in BroadcastTargets :
           callback_broadcast_confirm(user, target)
    /\ UNCHANGED not_notify_vars

SendNotification ==
    /\ \E notification \in Notifications : send_notification(notification)
    /\ UNCHANGED not_notify_vars

\* The turns of the loop of a running dispatch
DispatchStep ==
    /\ \/ broadcast_send
       \/ broadcast_finish
       \/ notification_send
       \/ notification_finish
    /\ UNCHANGED not_notify_vars

NextNotify ==
    \/ BroadcastConfirm
    \/ SendNotification
    \/ DispatchStep

SpecNotify == InitNotify /\ [][NextNotify]_vars

\* The event loop resumes a dispatch whose await has returned
FairSpecNotify == SpecNotify /\ WF_vars(DispatchStep)

-----------------------------------------------------------------------------
(* Dashboard: AnalyticsService.get_dashboard_summary.  A percentage is kept  *)
(* in tenths of a percent: -500 is the float -50.0, 1000 is 100.             *)

\* round(n / d, 0) of Python for d > 0: to the nearest integer, a tie to the
\* even one
round_half_even(n, d) ==
    LET q == n \div d
        r == n - q * d
    IN  IF 2 * r < d THEN q
        ELSE IF 2 * r > d THEN q + 1
        ELSE IF q % 2 = 0 THEN q ELSE q + 1

\* The mutant of change_percent: the quotient is cut, not rounded
change_percent_cut(today_count, yesterday_count) ==
    IF yesterday_count > 0
    THEN (1000 * (today_count - yesterday_count)) \div yesterday_count
    ELSE IF today_count > 0 THEN 1000 ELSE 0

\* round(((today_count - yesterday_count) / yesterday_count) * 100, 1)
change_percent(today_count, yesterday_count) ==
    IF yesterday_count > 0
    THEN round_half_even(1000 * (today_count - yesterday_count), yesterday_count)
    ELSE IF today_count > 0 THEN 1000 ELSE 0

get_dashboard_summary ==
    /\ dashboard' = [dashboard EXCEPT !.requests_change_percent =
           <<change_percent(dashboard.requests_today,
                            dashboard.requests_yesterday)>>]

\* The two counts of table request_logs are any two numbers of rows
InitDashboard ==
    /\ TicketIdle
    /\ NotifyIdle
    /\ FavoritesIdle
    /\ SearchIdle
    /\ CountersIdle
    /\ AuthIdle
    /\ ThrottleIdle
    /\ WizardIdle
    /\ \E today_count, yesterday_count \in 0..MaxCount :
        dashboard = [requests_today |-> today_count,
                     requests_yesterday |-> yesterday_count,
                     requests_change_percent |-> <<>>]

GetDashboardSummary ==
    /\ get_dashboard_summary
    /\ UNCHANGED not_dashboard_vars

NextDashboard == GetDashboardSummary

SpecDashboard == InitDashboard /\ [][NextDashboard]_vars

-----------------------------------------------------------------------------
(* Favorites: FAQService.add_to_favorites / remove_from_favorites and their  *)
(* handlers of faq.py.  Every handler runs in a session of its own; a step   *)
(* of a handler is what it does between two awaits on the database.  A row   *)
(* of user_favorites carries the session that inserted it until that         *)
(* session commits (0: committed).                                           *)

FavUserIds == {1, 2}
FaqItemIds == {1}
Committed == 0

IdleTask == [op |-> "none", pc |-> "idle", user_id |-> NoId,
             faq_item_id |-> NoId, existing |-> NoId]

Running == {t \in DOMAIN fav_tasks : fav_tasks[t].pc # "idle"}

\* Rows a session sees: the committed ones and its own
Visible(task) ==
    {k \in 1..Len(favorites) : favorites[k].session \in {Committed, task}}

\* select(UserFavorite).where(user_id == ..., faq_item_id == ...)
\* .scalar_one_or_none(): the id of the row, NoId for None
select_favorite(task, user_id, faq_item_id) ==
    LET found == {k \in Visible(task) :
                    /\ favorites[k].user_id = user_id
                    /\ favorites[k].faq_item_id = faq_item_id}
    IN  IF found = {} THEN NoId ELSE favorites[CHOOSE k \in found : TRUE].id

\* Index ix_user_favorites_unique: the rows an INSERT of the pair runs into
Conflicts(user_id, faq_item_id) ==
    {k \in 1..Len(favorites) :
        /\ favorites[k].user_id = user_id
        /\ favorites[k].faq_item_id = faq_item_id}

\* INTEGER PRIMARY KEY of SQLite: one more than the largest id of the table
next_id ==
    IF favorites = <<>> THEN 1
    ELSE 1 + (CHOOSE m \in {favorites[k].id : k \in 1..Len(favorites)} :
                \A k \in 1..Len(favorites) : favorites[k].id <= m)

RECURSIVE without_id(_, _)
without_id(rows, id) ==
    IF rows = <<>> THEN <<>>
    ELSE IF Head(rows).id = id THEN without_id(Tail(rows), id)
    ELSE <<Head(rows)>> \o without_id(Tail(rows), id)

\* session.commit(): the rows of the session are everybody's
commit(rows, task) ==
    [k \in 1..Len(rows) |->
        IF rows[k].session = task THEN [rows[k] EXCEPT !.session = Committed]
        ELSE rows[k]]

Outcome(task, returned, answer, error) ==
    [op |-> fav_tasks[task].op, user_id |-> fav_tasks[task].user_id,
     faq_item_id |-> fav_tasks[task].faq_item_id,
     returned |-> returned, answer |-> answer, error |-> error]

Finish(task, returned, answer, error) ==
    /\ fav_log' = Append(fav_log, Outcome(task, returned, answer, error))
    /\ fav_tasks' = [fav_tasks EXCEPT ![task] = IdleTask]

\* callback_faq_add_favorite up to the answer of the SELECT
callback_faq_add_favorite(task, user_id, faq_item_id) ==
    /\ fav_tasks[task].pc = "idle"
    /\ Len(fav_log) + Cardinality(Running) < MaxCalls
    /\ fav_tasks' = [fav_tasks EXCEPT ![task] =
           [op |-> "add", pc |-> "selected", user_id |-> user_id,
            faq_item_id |-> faq_item_id,
            existing |-> select_favorite(task, user_id, faq_item_id)]]
    /\ UNCHANGED <<favorites, fav_log>>

\* The mutant of add_to_favorites_flush: the answer of the SELECT is not
\* looked at
add_to_favorites_flush_unchecked(task) ==
    LET t == fav_tasks[task]
    IN  /\ t.op = "add"
        /\ t.pc = "selected"
        /\ \A k \in Conflicts(t.user_id, t.faq_item_id) :
                favorites[k].session = Committed
        /\ IF Conflicts(t.user_id, t.faq_item_id) # {}
           THEN /\ Finish(task, <<>>, "", "IntegrityError")
                /\ UNCHANGED favorites
           ELSE /\ favorites' = Append(favorites,
                       [id |-> next_id, user_id |-> t.user_id,
                        faq_item_id |-> t.faq_item_id, session |-> task])
                /\ fav_tasks' = [fav_tasks EXCEPT ![task].pc = "flushed"]
                /\ UNCHANGED fav_log

\* add_to_favorites from the answer of the SELECT to the end of the flush.
\* The INSERT of a pair another session has inserted and not yet committed
\* waits for that session; the INSERT of a pair the table holds raises
\* IntegrityError, and the handler ends with it (its session is rolled back).
add_to_favorites_flush(task) ==
    LET t == fav_tasks[task]
    IN  /\ t.op = "add"
        /\ t.pc = "selected"
        /\ IF t.existing # NoId
           THEN /\ Finish(task, <<FALSE>>, "Already in favorites", "")
                /\ UNCHANGED favorites
           ELSE /\ \A k \in Conflicts(t.user_id, t.faq_item_id) :
                        favorites[k].session = Committed
                /\ IF Conflicts(t.user_id, t.faq_item_id) # {}
                   THEN /\ Finish(task, <<>>, "", "IntegrityError")
                        /\ UNCHANGED favorites
                   ELSE /\ favorites' = Append(favorites,
                               [id |-> next_id, user_id |-> t.user_id,
                                faq_item_id |-> t.faq_item_id,
                                session |-> task])
                        /\ fav_tasks' = [fav_tasks EXCEPT ![task].pc = "flushed"]
                        /\ UNCHANGED fav_log

\* callback_faq_add_favorite from session.commit() to its answer
add_favorite_commit(task) ==
    /\ fav_tasks[task].op = "add"
    /\ fav_tasks[task].pc = "flushed"
    /\ favorites' = commit(favorites, task)
    /\ Finish(task, <<TRUE>>, "Added to favorites!", "")

\* callback_faq_remove_favorite up to the answer of the SELECT
callback_faq_remove_favorite(task, user_id, faq_item_id) ==
    /\ fav_tasks[task].pc = "idle"
    /\ Len(fav_log) + Cardinality(Running) < MaxCalls
    /\ fav_tasks' = [fav_tasks EXCEPT ![task] =
           [op |-> "remove", pc |-> "selected", user_id |-> user_id,
            faq_item_id |-> faq_item_id,
            existing |-> select_favorite(task, user_id, faq_item_id)]]
    /\ UNCHANGED <<favorites, fav_log>>

\* remove_from_favorites from the answer of the SELECT, session.commit() and
\* the answer of callback_faq_remove_favorite, which is the same whatever
\* remove_from_favorites returned.  The DELETE is made by primary key.
remove_favorite_commit(task) ==
    LET t == fav_tasks[task]
    IN  /\ t.op = "remove"
        /\ t.pc = "selected"
        /\ \A k \in 1..Len(favorites) :
                favorites[k].id = t.existing
                    => favorites[k].session \in {Committed, task}
        /\ IF t.existing # NoId
           THEN /\ favorites' = without_id(favorites, t.existing)
                /\ Finish(task, <<TRUE>>, "Removed from favorites", "")
           ELSE /\ UNCHANGED favorites
                /\ Finish(task, <<FALSE>>, "Removed from favorites", "")

InitFavoritesOf(tasks) ==
    /\ TicketIdle
    /\ NotifyIdle
    /\ DashboardIdle
    /\ SearchIdle
    /\ CountersIdle
    /\ AuthIdle
    /\ ThrottleIdle
    /\ WizardIdle
    /\ favorites = <<>>
    /\ fav_tasks = [t \in tasks |-> IdleTask]
    /\ fav_log = <<>>

\* The updates are handled one after the other
InitFavorites == InitFavoritesOf({1})

\* Two updates are handled at a time
InitFavoritesConcurrent == InitFavoritesOf({1, 2})

AddFavorite ==
    /\ \E task \in DOMAIN fav_tasks, user_id \in FavUserIds,
          faq_item_id \in FaqItemIds :
           callback_faq_add_favorite(task, user_id, faq_item_id)
    /\ UNCHANGED not_favorite_vars

RemoveFavorite ==
    /\ \E task \in DOMAIN fav_tasks, user_id \in FavUserIds,
          faq_item_id \in FaqItemIds :
           callback_faq_remove_favorite(task, user_id, faq_item_id)
    /\ UNCHANGED not_favorite_vars

AddFlush ==
    /\ \E task \in DOMAIN fav_tasks : add_to_favorites_flush(task)
    /\ UNCHANGED not_favorite_vars

AddCommit ==
    /\ \E task \in DOMAIN fav_tasks : add_favorite_commit(task)
    /\ UNCHANGED not_favorite_vars

RemoveCommit ==
    /\ \E task \in DOMAIN fav_tasks : remove_favorite_commit(task)
    /\ UNCHANGED not_favorite_vars

NextFavorites ==
    \/ AddFavorite
    \/ RemoveFavorite
    \/ AddFlush
    \/ AddCommit
    \/ RemoveCommit

SpecFavorites == InitFavorites /\ [][NextFavorites]_vars

SpecFavoritesConcurrent == InitFavoritesConcurrent /\ [][NextFavorites]_vars

-----------------------------------------------------------------------------
(* Search: FAQService.search, DocumentService.search and the handlers that   *)
(* call them.  The score of a row is what fuzz.token_set_ratio gives for the *)
(* query and the text of the row: any number of Scores.                      *)

Scores == {40, 50, 70}
SearchLimits == {0, 1, 2}
Thresholds == {50, 60}
SearchUserIds == {1}
SearchTexts == {<<" ">>, <<"a">>, <<" ", "a", " ">>, <<"a", "b">>,
                <<" ", "a", "b">>, <<"a", "b", "c">>}

\* Tables of up to MaxItems rows, in the order the SELECT returns them
ItemLists ==
    UNION {{[k \in 1..n |-> [id |-> k, is_active |-> a[k], score |-> sc[k]]] :
                a \in [1..n -> BOOLEAN], sc \in [1..n -> Scores]} :
           n \in 0..MaxItems}

Min(a, b) == IF a < b THEN a ELSE b

\* seq[:n]
FirstN(seq, n) == SubSeq(seq, 1, Min(n, Len(seq)))

\* One step of a stable sort by descending score: x goes behind every row
\* whose score is not smaller
RECURSIVE insert_desc(_, _)
insert_desc(sorted, x) ==
    IF sorted = <<>> THEN <<x>>
    ELSE IF Head(sorted).score >= x.score
         THEN <<Head(sorted)>> \o insert_desc(Tail(sorted), x)
         ELSE <<x>> \o sorted

\* results.sort(key=lambda x: x[1], reverse=True): stable
RECURSIVE sort_desc(_)
sort_desc(seq) ==
    IF seq = <<>> THEN <<>>
    ELSE insert_desc(sort_desc(SubSeq(seq, 1, Len(seq) - 1)), seq[Len(seq)])

\* The mutant of extract: the first `limit` choices, whatever their scores
extract_first(choices, limit) == FirstN(choices, limit)

\* rapidfuzz process.extract(query, choices, scorer, limit): the `limit`
\* choices of the highest score, by descending score, equal scores in the
\* order of the choices
extract(choices, limit) == FirstN(sort_desc(choices), limit)

Scored(rows) == [k \in 1..Len(rows) |-> [id |-> rows[k].id, score |-> rows[k].score]]

\* FAQService.search
faq_search(query, limit, threshold) ==
    LET items == SelectSeq(faq_items, LAMBDA item : item.is_active)
        matches == extract(items, limit * 2)
        results == SelectSeq(matches, LAMBDA m : m.score >= threshold)
    IN  IF items = <<>> THEN <<>>
        ELSE Scored(FirstN(sort_desc(results), limit))

\* DocumentService.search
document_search(query, limit, threshold) ==
    LET docs == SelectSeq(documents, LAMBDA doc : doc.is_active)
        matches == extract(docs, limit * 2)
        results == SelectSeq(matches, LAMBDA m : m.score >= threshold)
    IN  IF docs = <<>> THEN <<>>
        ELSE Scored(FirstN(sort_desc(results), limit))

SearchCall(fn, query, limit, threshold, results) ==
    [fn |-> fn, query |-> query, limit |-> limit, threshold |-> threshold,
     results |-> results]

\* AnalyticsService.log_request
RequestLog(user_id, request_type, request_text, results) ==
    [user_id |-> user_id, request_type |-> request_type,
     request_text |-> request_text,
     response_type |-> IF results # <<>> THEN "found" ELSE "not_found"]

\* A call of FAQService.search with any limit and threshold
call_faq_search(query, limit, threshold) ==
    /\ Len(search_calls) < MaxSearches
    /\ search_calls' = Append(search_calls,
           SearchCall("FAQService.search", query, limit, threshold,
                      faq_search(query, limit, threshold)))
    /\ UNCHANGED <<fsm, request_logs, search_reply>>

\* A call of DocumentService.search with any limit and threshold
call_document_search(query, limit, threshold) ==
    /\ Len(search_calls) < MaxSearches
    /\ search_calls' = Append(search_calls,
           SearchCall("DocumentService.search", query, limit, threshold,
                      document_search(query, limit, threshold)))
    /\ UNCHANGED <<fsm, request_logs, search_reply>>

callback_faq_search(user) ==
    /\ fsm' = [fsm EXCEPT ![user].state = "FAQStates:searching"]
    /\ UNCHANGED <<search_calls, request_logs, search_reply>>

start_document_search(user) ==
    /\ fsm' = [fsm EXCEPT ![user].state = "DocumentStates:searching"]
    /\ UNCHANGED <<search_calls, request_logs, search_reply>>

\* The mutant of process_faq_search: the length of the query is not looked at
process_faq_search_unchecked(user, text) ==
    LET query == strip(text)
        results == faq_search(query, 5, 50)
    IN  /\ fsm[user].state = "FAQStates:searching"
        /\ Len(search_calls) < MaxSearches
        /\ search_calls' = Append(search_calls,
               SearchCall("FAQService.search", query, 5, 50, results))
        /\ request_logs' = Append(request_logs,
               RequestLog(user, "faq_search", query, results))
        /\ fsm' = [fsm EXCEPT ![user] = Cleared]
        /\ search_reply' = IF results = <<>> THEN "nothing found" ELSE "results"

process_faq_search(user, text) ==
    LET query == strip(text)
        results == faq_search(query, 5, 50)
    IN  /\ fsm[user].state = "FAQStates:searching"
        /\ Len(search_calls) < MaxSearches
        /\ IF Len(query) < 2
           THEN /\ search_reply' = "too short"
                /\ UNCHANGED <<fsm, search_calls, request_logs>>
           ELSE /\ search_calls' = Append(search_calls,
                       SearchCall("FAQService.search", query, 5, 50, results))
                /\ request_logs' = Append(request_logs,
                       RequestLog(user, "faq_search", query, results))
                /\ fsm' = [fsm EXCEPT ![user] = Cleared]
                /\ search_reply' = IF results = <<>> THEN "nothing found"
                                   ELSE "results"

process_document_search(user, text) ==
    LET query == strip(text)
        results == document_search(query, 10, 50)
    IN  /\ fsm[user].state = "DocumentStates:searching"
        /\ Len(search_calls) < MaxSearches
        /\ IF Len(query) < 2
           THEN /\ search_reply' = "too short"
                /\ UNCHANGED <<fsm, search_calls, request_logs>>
           ELSE /\ fsm' = [fsm EXCEPT ![user] = Cleared]
                /\ search_calls' = Append(search_calls,
                       SearchCall("DocumentService.search", query, 10, 50,
                                  results))
                /\ request_logs' = Append(request_logs,
                       RequestLog(user, "document_search", query, results))
                /\ search_reply' = IF results = <<>> THEN "nothing found"
                                   ELSE "results"

\* The catch-all handler of the last router: it gets the texts no handler of
\* a state has taken.  It answers nothing when it refuses the query, and an
\* offer to write to an operator when nothing is found.
auto_search_faq(user, text) ==
    LET query == strip(text)
        results == faq_search(query, 3, 60)
    IN  /\ fsm[user].state = "None"
        /\ text # <<>>
        /\ Len(search_calls) < MaxSearches
        /\ IF Len(query) < 3
           THEN UNCHANGED <<fsm, search_calls, request_logs, search_reply>>
           ELSE /\ search_calls' = Append(search_calls,
                       SearchCall("FAQService.search", query, 3, 60, results))
                /\ request_logs' = Append(request_logs,
                       RequestLog(user, "auto_search", Truncate(query, 200),
                                  results))
                /\ search_reply' = IF results = <<>> THEN "nothing found"
                                   ELSE "results"
                /\ UNCHANGED fsm

\* One of the two tables is filled
InitSearch ==
    /\ users = [u \in SearchUserIds |->
            [telegram_id |-> 100 + u, role |-> "student",
             full_name |-> "Ivanov Ivan", first_name |-> "", last_name |-> "",
             username |-> "", group_name |-> "221-361"]]
    /\ tickets = <<>>
    /\ messages = <<>>
    /\ fsm = [u \in SearchUserIds |-> Cleared]
    /\ NotifyIdle
    /\ DashboardIdle
    /\ FavoritesIdle
    /\ CountersIdle
    /\ AuthIdle
    /\ ThrottleIdle
    /\ WizardIdle
    /\ \E rows \in ItemLists :
        \/ faq_items = rows /\ documents = <<>>
        \/ faq_items = <<>> /\ documents = rows
    /\ search_calls = <<>>
    /\ request_logs = <<>>
    /\ search_reply = ""

search_frame == UNCHANGED <<users, tickets, messages, faq_items, documents,
                            not_search_vars>>

FaqSearch ==
    /\ \E query \in SearchTexts, limit \in SearchLimits,
          threshold \in Thresholds : call_faq_search(query, limit, threshold)
    /\ search_frame

DocumentSearch ==
    /\ \E query \in SearchTexts, limit \in SearchLimits,
          threshold \in Thresholds :
           call_document_search(query, limit, threshold)
    /\ search_frame

CallbackFaqSearch ==
    /\ \E user \in SearchUserIds : callback_faq_search(user)
    /\ search_frame

StartDocumentSearch ==
    /\ \E user \in SearchUserIds : start_document_search(user)
    /\ search_frame

ProcessFaqSearch ==
    /\ \E user \in SearchUserIds, text \in SearchTexts :
           process_faq_search(user, text)
    /\ search_frame

ProcessDocumentSearch ==
    /\ \E user \in SearchUserIds, text \in SearchTexts :
           process_document_search(user, text)
    /\ search_frame

AutoSearchFaq ==
    /\ \E user \in SearchUserIds, text \in SearchTexts :
           auto_search_faq(user, text)
    /\ search_frame

NextSearch ==
    \/ FaqSearch
    \/ DocumentSearch
    \/ CallbackFaqSearch
    \/ StartDocumentSearch
    \/ ProcessFaqSearch
    \/ ProcessDocumentSearch
    \/ AutoSearchFaq

SpecSearch == InitSearch /\ [][NextSearch]_vars

-----------------------------------------------------------------------------
(* FAQ counters: FAQService.increment_view, rate_item, update_item and the   *)
(* handlers callback_faq_item and callback_faq_rate.  Every handler runs in  *)
(* a session of its own; its UPDATE holds the row until its commit, when the *)
(* other sessions see it.                                                    *)

FaqIds == {1, 2}
FaqCallbackIds == {1, 2, 3}     \* 3 is the id of no item
CounterTasks == {1, 2}
ItemKeys == {"question", "views_count", "no_such_attribute"}
ItemValues(key) == IF key = "views_count" THEN {0} ELSE {"q1", "q2"}

IdleFaqTask == [op |-> "none", pc |-> "idle", item_id |-> NoId,
                is_helpful |-> FALSE, loaded |-> 0]

FaqRunning == {t \in DOMAIN faq_tasks : faq_tasks[t].pc # "idle"}

CounterNames == {"views_count", "helpful_count", "not_helpful_count"}

\* The handlers of an id that have ended
Ended(item_id) ==
    faq_done[item_id]["views_count"] + faq_done[item_id]["helpful_count"]
    + faq_done[item_id]["not_helpful_count"]

HandlersStarted ==
    Cardinality(FaqRunning) + Ended(1) + Ended(2) + Ended(3)

\* The row is held by the UPDATE of another session
Held(task, item_id) ==
    \E other \in DOMAIN faq_tasks \ {task} :
        faq_tasks[other].pc = "updated" /\ faq_tasks[other].item_id = item_id

\* The mutant of plus_one: one more than the value the handler has loaded
plus_one_of_loaded(current, loaded) == loaded + 1

\* .values(views_count=FAQItem.views_count + 1): computed by the database
\* from the row as it is
plus_one(current, loaded) == current + 1

\* callback_faq_item up to the item of get_item_by_id
callback_faq_item(task, item_id) ==
    /\ faq_tasks[task].pc = "idle"
    /\ HandlersStarted < MaxHandlers
    /\ IF item_id \notin DOMAIN faq_stats
       THEN UNCHANGED <<faq_stats, faq_tasks, faq_done>>
       ELSE /\ faq_tasks' = [faq_tasks EXCEPT ![task] =
                   [op |-> "views_count", pc |-> "selected",
                    item_id |-> item_id, is_helpful |-> FALSE,
                    loaded |-> faq_stats[item_id].views_count]]
            /\ UNCHANGED <<faq_stats, faq_done>>

\* FAQService.increment_view: the UPDATE
increment_view(task) ==
    /\ faq_tasks[task].pc = "selected"
    /\ ~Held(task, faq_tasks[task].item_id)
    /\ faq_tasks' = [faq_tasks EXCEPT ![task].pc = "updated"]
    /\ UNCHANGED <<faq_stats, faq_done>>

\* callback_faq_rate up to the UPDATE of FAQService.rate_item
callback_faq_rate(task, item_id, is_helpful) ==
    /\ faq_tasks[task].pc = "idle"
    /\ HandlersStarted < MaxHandlers
    /\ ~Held(task, item_id)
    /\ faq_tasks' = [faq_tasks EXCEPT ![task] =
           [op |-> IF is_helpful THEN "helpful_count" ELSE "not_helpful_count",
            pc |-> "updated", item_id |-> item_id,
            is_helpful |-> is_helpful, loaded |-> 0]]
    /\ UNCHANGED <<faq_stats, faq_done>>

\* session.commit() of callback_faq_item and of callback_faq_rate: the
\* UPDATE of the handler is everybody's.  An UPDATE of the id of no item has
\* changed no row.
faq_commit(task) ==
    LET t == faq_tasks[task]
    IN  /\ t.pc = "updated"
        /\ IF t.item_id \in DOMAIN faq_stats
           THEN faq_stats' = [faq_stats EXCEPT ![t.item_id][t.op] =
                    plus_one(faq_stats[t.item_id][t.op], t.loaded)]
           ELSE UNCHANGED faq_stats
        /\ faq_done' = [faq_done EXCEPT ![t.item_id][t.op] = @ + 1]
        /\ faq_tasks' = [faq_tasks EXCEPT ![task] = IdleFaqTask]

\* FAQService.update_item(item_id, key=value), committed by its caller
update_item(item_id, key, value) ==
    /\ ~Held(0, item_id)
    /\ IF item_id \in DOMAIN faq_stats /\ key \in DOMAIN faq_stats[item_id]
       THEN faq_stats' = [faq_stats EXCEPT ![item_id][key] = value]
       ELSE UNCHANGED faq_stats
    /\ UNCHANGED <<faq_tasks, faq_done>>

\* Two items nobody has seen or rated
InitFaqCounters ==
    /\ TicketIdle
    /\ NotifyIdle
    /\ DashboardIdle
    /\ FavoritesIdle
    /\ SearchIdle
    /\ AuthIdle
    /\ ThrottleIdle
    /\ WizardIdle
    /\ faq_stats = [i \in FaqIds |->
            [question |-> "q1", views_count |-> 0, helpful_count |-> 0,
             not_helpful_count |-> 0]]
    /\ faq_tasks = [t \in CounterTasks |-> IdleFaqTask]
    /\ faq_done = [i \in FaqCallbackIds |-> [c \in CounterNames |-> 0]]

CallbackFaqItem ==
    /\ \E task \in DOMAIN faq_tasks, item_id \in FaqCallbackIds :
           callback_faq_item(task, item_id)
    /\ UNCHANGED not_counter_vars

IncrementView ==
    /\ \E task \in DOMAIN faq_tasks : increment_view(task)
    /\ UNCHANGED not_counter_vars

CallbackFaqRate ==
    /\ \E task \in DOMAIN faq_tasks, item_id \in FaqCallbackIds,
          is_helpful \in BOOLEAN : callback_faq_rate(task, item_id, is_helpful)
    /\ UNCHANGED not_counter_vars

FaqCommit ==
    /\ \E task \in DOMAIN faq_tasks : faq_commit(task)
    /\ UNCHANGED not_counter_vars

UpdateItem ==
    /\ \E item_id \in FaqCallbackIds, key \in ItemKeys :
        \E value \in ItemValues(key) : update_item(item_id, key, value)
    /\ UNCHANGED not_counter_vars

\* The handlers of the bot
NextFaqHandlers ==
    \/ CallbackFaqItem
    \/ IncrementView
    \/ CallbackFaqRate
    \/ FaqCommit

SpecFaqHandlers == InitFaqCounters /\ [][NextFaqHandlers]_vars

\* The operations of FAQService
NextFaqService ==
    \/ CallbackFaqItem
    \/ IncrementView
    \/ CallbackFaqRate
    \/ FaqCommit
    \/ UpdateItem

SpecFaqService == InitFaqCounters /\ [][NextFaqService]_vars

-----------------------------------------------------------------------------
(* AuthMiddleware and the handlers behind it.  An event is one action: the   *)
(* middleware commits the user before it calls the handler, and the handler  *)
(* is given that user.  The table of the users starts empty, and a row is    *)
(* [telegram_id, role, is_active].                                            *)

TelegramIds == {101, 102}

\* settings.ADMIN_IDS
ADMIN_IDS == {101}

\* Ids a callback admin_user_role / admin_user_ban can carry; 3 is no user
TargetUserIds == {1, 2, 3}

\* The roles the keyboard of admin_user_role offers
NewRoles == {"student", "moderator", "admin"}

\* select(User).where(User.telegram_id == tg_user.id), on the table `table`
user_id_of(table, tg) ==
    IF \E i \in 1..Len(table) : table[i].telegram_id = tg
    THEN CHOOSE i \in 1..Len(table) : table[i].telegram_id = tg
    ELSE NoId

\* _get_or_create_user that leaves the role of a known user as it is stored
get_or_create_user_no_restore(table, tg) ==
    IF user_id_of(table, tg) = NoId
    THEN Append(table, [telegram_id |-> tg,
                        role |-> IF tg \in ADMIN_IDS THEN "admin" ELSE "student",
                        is_active |-> TRUE])
    ELSE table

\* AuthMiddleware._get_or_create_user and the commit of __call__: the table
\* of the users after them
get_or_create_user(table, tg) ==
    IF user_id_of(table, tg) = NoId
    THEN Append(table, [telegram_id |-> tg,
                        role |-> IF tg \in ADMIN_IDS THEN "admin" ELSE "student",
                        is_active |-> TRUE])
    ELSE [table EXCEPT ![user_id_of(table, tg)].role =
                IF tg \in ADMIN_IDS /\ @ # "admin" THEN "admin" ELSE @]

\* data["user"] of AuthMiddleware.__call__: the user the handler is given
data_user(table, tg) ==
    LET after == get_or_create_user(table, tg)
    IN  after[user_id_of(after, tg)]

\* What is recorded of an event: the user the handler was given, whether the
\* middleware changed a stored role, and the handler
Handled(table, tg, handler) ==
    LET user == data_user(table, tg)
        id == user_id_of(table, tg)
    IN  [telegram_id |-> tg, role |-> user.role, is_active |-> user.is_active,
         restored |-> (id # NoId /\ table[id].role # user.role),
         handler |-> handler]

\* admin.py admin_only_filter, on the user the handler is given
admin_only_filter(user) == user.role = "admin"

\* UserService.set_role, on the table `table`
set_role(table, user_id, role) ==
    IF user_id \in 1..Len(table)
    THEN [table EXCEPT ![user_id].role = role]
    ELSE table

\* UserService.deactivate_user, on the table `table`
deactivate_user(table, user_id) ==
    IF user_id \in 1..Len(table)
    THEN [table EXCEPT ![user_id].is_active = FALSE]
    ELSE table

\* An event admin_user_role:<target>:<role> of the user tg:
\* AuthMiddleware, then admin.py callback_change_user_role
change_role_event(tg, target_user_id, new_role) ==
    /\ handled' = Handled(users, tg, "callback_change_user_role")
    /\ users' = IF data_user(users, tg).role # "admin"
                THEN get_or_create_user(users, tg)
                ELSE set_role(get_or_create_user(users, tg),
                              target_user_id, new_role)
    /\ UNCHANGED <<tickets, messages, fsm, counter_vars>>

\* An event admin_user_ban:<target> of the user tg: AuthMiddleware, then
\* admin.py callback_ban_user
ban_event(tg, target_user_id) ==
    /\ handled' = Handled(users, tg, "callback_ban_user")
    /\ users' = IF ~admin_only_filter(data_user(users, tg))
                THEN get_or_create_user(users, tg)
                ELSE deactivate_user(get_or_create_user(users, tg),
                                     target_user_id)
    /\ UNCHANGED <<tickets, messages, fsm, counter_vars>>

\* An event faq_rate:<item>:<0|1> of the user tg: AuthMiddleware, then
\* faq.py callback_faq_rate up to its commit
rate_event(tg, task, item_id, is_helpful) ==
    /\ handled' = Handled(users, tg, "callback_faq_rate")
    /\ users' = get_or_create_user(users, tg)
    /\ callback_faq_rate(task, item_id, is_helpful)
    /\ UNCHANGED <<tickets, messages, fsm>>

InitAuth ==
    /\ TicketIdle
    /\ NotifyIdle
    /\ DashboardIdle
    /\ FavoritesIdle
    /\ SearchIdle
    /\ AuthIdle
    /\ ThrottleIdle
    /\ WizardIdle
    /\ faq_stats = [i \in {1} |->
            [question |-> "q1", views_count |-> 0, helpful_count |-> 0,
             not_helpful_count |-> 0]]
    /\ faq_tasks = [t \in {1} |-> IdleFaqTask]
    /\ faq_done = [i \in FaqCallbackIds |-> [c \in CounterNames |-> 0]]

ChangeRoleEvent ==
    /\ \E tg \in TelegramIds, target_user_id \in TargetUserIds,
          new_role \in NewRoles :
           change_role_event(tg, target_user_id, new_role)
    /\ UNCHANGED not_auth_vars

BanEvent ==
    /\ \E tg \in TelegramIds, target_user_id \in TargetUserIds :
           ban_event(tg, target_user_id)
    /\ UNCHANGED not_auth_vars

RateEvent ==
    /\ \E tg \in TelegramIds, is_helpful \in BOOLEAN :
           rate_event(tg, 1, 1, is_helpful)
    /\ UNCHANGED not_auth_vars

NextAuth ==
    \/ ChangeRoleEvent
    \/ BanEvent
    \/ RateEvent
    \/ FaqCommit

SpecAuth == InitAuth /\ [][NextAuth]_vars

-----------------------------------------------------------------------------
(* ThrottlingMiddleware.  The clock counts ticks of an eighth of a second;    *)
(* it has run for long when the bot starts, and it advances between two      *)
(* events.                                                                    *)

\* rate_limit = 0.5 seconds, in ticks
rate_limit == 4
warning_limit == 3

ThrottleUserIds == {1, 2}

\* Ticks between two events
Delays == {1, 3}

Throttled(user_id, time, is_message, passed, warned) ==
    [user_id |-> user_id, time |-> time, is_message |-> is_message,
     passed |-> passed, warned |-> warned]

\* __call__ storing the time of a dropped message as well
throttling_call_restarting(user_id, is_message) ==
    LET current_time == clock'
        last_time == user_timestamps[user_id]
    IN  IF ~is_message
        THEN /\ throttled' = Append(throttled,
                    Throttled(user_id, current_time, FALSE, TRUE, FALSE))
             /\ UNCHANGED <<user_timestamps, user_violations>>
        ELSE IF current_time - last_time < rate_limit
        THEN LET violations == user_violations[user_id] + 1 IN
             /\ user_violations' = [user_violations EXCEPT ![user_id] =
                    IF violations >= warning_limit THEN 0 ELSE violations]
             /\ throttled' = Append(throttled,
                    Throttled(user_id, current_time, TRUE, FALSE,
                              violations >= warning_limit))
             /\ user_timestamps' =
                    [user_timestamps EXCEPT ![user_id] = current_time]
        ELSE /\ user_timestamps' =
                    [user_timestamps EXCEPT ![user_id] = current_time]
             /\ user_violations' = [user_violations EXCEPT ![user_id] = 0]
             /\ throttled' = Append(throttled,
                    Throttled(user_id, current_time, TRUE, TRUE, FALSE))

\* ThrottlingMiddleware.__call__ on an event of the user: a Message or not
throttling_call(user_id, is_message) ==
    LET current_time == clock'
        last_time == user_timestamps[user_id]
    IN  IF ~is_message
        THEN /\ throttled' = Append(throttled,
                    Throttled(user_id, current_time, FALSE, TRUE, FALSE))
             /\ UNCHANGED <<user_timestamps, user_violations>>
        ELSE IF current_time - last_time < rate_limit
        THEN LET violations == user_violations[user_id] + 1 IN
             /\ user_violations' = [user_violations EXCEPT ![user_id] =
                    IF violations >= warning_limit THEN 0 ELSE violations]
             /\ throttled' = Append(throttled,
                    Throttled(user_id, current_time, TRUE, FALSE,
                              violations >= warning_limit))
             /\ UNCHANGED user_timestamps
        ELSE /\ user_timestamps' =
                    [user_timestamps EXCEPT ![user_id] = current_time]
             /\ user_violations' = [user_violations EXCEPT ![user_id] = 0]
             /\ throttled' = Append(throttled,
                    Throttled(user_id, current_time, TRUE, TRUE, FALSE))

\* A message of the user arrives
message_event(user_id, delay) ==
    /\ Len(throttled) < MaxEvents
    /\ clock' = clock + delay
    /\ throttling_call(user_id, TRUE)

\* A callback query of the user arrives
callback_event(user_id, delay) ==
    /\ Len(throttled) < MaxEvents
    /\ clock' = clock + delay
    /\ throttling_call(user_id, FALSE)

\* ThrottlingMiddleware.__init__, at a time.time() of at least rate_limit
InitThrottle ==
    /\ TicketIdle
    /\ NotifyIdle
    /\ DashboardIdle
    /\ FavoritesIdle
    /\ SearchIdle
    /\ CountersIdle
    /\ AuthIdle
    /\ WizardIdle
    /\ clock = rate_limit
    /\ user_timestamps = [u \in ThrottleUserIds |-> 0]
    /\ user_violations = [u \in ThrottleUserIds |-> 0]
    /\ throttled = <<>>

MessageEvent ==
    /\ \E user_id \in ThrottleUserIds, delay \in Delays :
           message_event(user_id, delay)
    /\ UNCHANGED not_throttle_vars

CallbackEvent ==
    /\ \E user_id \in ThrottleUserIds, delay \in Delays :
           callback_event(user_id, delay)
    /\ UNCHANGED not_throttle_vars

NextThrottle ==
    \/ MessageEvent
    \/ CallbackEvent

SpecThrottle == InitThrottle /\ [][NextThrottle]_vars

-----------------------------------------------------------------------------
(* The ticket creation wizard of tickets.py.  A text is known by its length: *)
(* the whitespace it starts with, its body, the whitespace it ends with.     *)
(* The state of the wizard is the state of the FSM context; its data are     *)
(* kept per user, and state.clear() clears both.                             *)

Text(lead, body, trail) == [lead |-> lead, body |-> body, trail |-> trail]

\* len(text)
TextLen(text) == text.lead + text.body + text.trail

\* text.strip()
text_strip(text) == Text(0, text.body, 0)

\* The texts a user sends to the wizard
WizardTexts ==
    {Text(pad, body, pad) : pad \in {0, 1},
                            body \in {4, 5, 10, 200, 201, 5001}}

WizardUserIds == {1}

\* FSM data after state.clear()
NoData == [category |-> None, is_anonymous |-> None, subject |-> None,
           description |-> None]

\* tickets.py start_create_ticket: the data are kept
start_create_ticket(user) ==
    /\ fsm' = [fsm EXCEPT ![user].state = "selecting_category"]
    /\ UNCHANGED <<users, tickets, messages, wizard>>

\* tickets.py select_ticket_category
select_ticket_category(user, category) ==
    /\ fsm[user].state = "selecting_category"
    /\ wizard' = [wizard EXCEPT ![user].category = Some(category)]
    /\ fsm' = [fsm EXCEPT ![user].state = "selecting_anonymous"]
    /\ UNCHANGED <<users, tickets, messages>>

\* tickets.py select_anonymous
select_anonymous(user, is_anonymous) ==
    /\ fsm[user].state = "selecting_anonymous"
    /\ wizard' = [wizard EXCEPT ![user].is_anonymous = Some(is_anonymous)]
    /\ fsm' = [fsm EXCEPT ![user].state = "entering_subject"]
    /\ UNCHANGED <<users, tickets, messages>>

\* tickets.py enter_subject
enter_subject(user, text) ==
    /\ fsm[user].state = "entering_subject"
    /\ LET subject == text_strip(text) IN
       IF TextLen(subject) < 5 \/ TextLen(subject) > 200
       THEN UNCHANGED <<fsm, wizard>>
       ELSE /\ wizard' = [wizard EXCEPT ![user].subject = Some(subject)]
            /\ fsm' = [fsm EXCEPT ![user].state = "entering_description"]
    /\ UNCHANGED <<users, tickets, messages>>

\* tickets.py enter_description
enter_description(user, text) ==
    /\ fsm[user].state = "entering_description"
    /\ LET description == text_strip(text) IN
       IF TextLen(description) < 10
       THEN UNCHANGED <<fsm, wizard>>
       ELSE /\ wizard' = [wizard EXCEPT ![user].description = Some(description)]
            /\ fsm' = [fsm EXCEPT ![user].state = "confirming"]
    /\ UNCHANGED <<users, tickets, messages>>

\* tickets.py confirm_ticket in state confirming, on the data of the wizard
confirm_wizard(user, suffix) ==
    /\ fsm[user].state = "confirming"
    /\ LET data == wizard[user] IN
       confirm_ticket(user, data.subject[1], data.description[1],
                      data.category[1], data.is_anonymous[1], suffix)
    /\ wizard' = IF tickets' # tickets
                 THEN [wizard EXCEPT ![user] = NoData]
                 ELSE wizard

\* tickets.py edit_ticket
edit_ticket(user) ==
    /\ fsm[user].state = "confirming"
    /\ fsm' = [fsm EXCEPT ![user].state = "entering_description"]
    /\ UNCHANGED <<users, tickets, messages, wizard>>

\* tickets.py cancel_ticket_creation
cancel_ticket_creation(user) ==
    /\ fsm' = [fsm EXCEPT ![user] = Cleared]
    /\ wizard' = [wizard EXCEPT ![user] = NoData]
    /\ UNCHANGED <<users, tickets, messages>>

InitWizard ==
    /\ users = [u \in UserIds |->
            [telegram_id |-> 100 + u,
             role |-> IF u = 1 THEN "student" ELSE "moderator",
             full_name |-> IF u = 1 THEN "Ivanov Ivan" ELSE "",
             first_name |-> IF u = 2 THEN "Petr" ELSE "",
             last_name |-> "",
             username |-> "",
             group_name |-> IF u = 1 THEN "221-361" ELSE ""]]
    /\ tickets = <<>>
    /\ messages = <<>>
    /\ fsm = [u \in UserIds |-> Cleared]
    /\ wizard = [u \in WizardUserIds |-> NoData]
    /\ NotifyIdle
    /\ DashboardIdle
    /\ FavoritesIdle
    /\ SearchIdle
    /\ CountersIdle
    /\ AuthIdle
    /\ ThrottleIdle

StartCreateTicket ==
    /\ \E user \in WizardUserIds : start_create_ticket(user)
    /\ UNCHANGED not_wizard_vars

SelectTicketCategory ==
    /\ \E user \in WizardUserIds, category \in Categories :
           select_ticket_category(user, category)
    /\ UNCHANGED not_wizard_vars

SelectAnonymous ==
    /\ \E user \in WizardUserIds, is_anonymous \in BOOLEAN :
           select_anonymous(user, is_anonymous)
    /\ UNCHANGED not_wizard_vars

EnterSubject ==
    /\ \E user \in WizardUserIds, text \in WizardTexts :
           enter_subject(user, text)
    /\ UNCHANGED not_wizard_vars

EnterDescription ==
    /\ \E user \in WizardUserIds, text \in WizardTexts :
           enter_description(user, text)
    /\ UNCHANGED not_wizard_vars

ConfirmWizard ==
    /\ \E user \in WizardUserIds, suffix \in Suffixes :
           confirm_wizard(user, suffix)
    /\ UNCHANGED not_wizard_vars

EditTicket ==
    /\ \E user \in WizardUserIds : edit_ticket(user)
    /\ UNCHANGED not_wizard_vars

CancelTicketCreation ==
    /\ \E user \in WizardUserIds : cancel_ticket_creation(user)
    /\ UNCHANGED not_wizard_vars

NextWizard ==
    \/ StartCreateTicket
    \/ SelectTicketCategory
    \/ SelectAnonymous
    \/ EnterSubject
    \/ EnterDescription
    \/ ConfirmWizard
    \/ EditTicket
    \/ CancelTicketCreation

SpecWizard == InitWizard /\ [][NextWizard]_vars

-----------------------------------------------------------------------------
(* Notions the properties below are stated in *)

\* The user has a staff role (Moderator/Admin)
Staff(user) == users[user].role \in {"moderator", "admin"}

\* The user is the requester of the stored ticket
Owner(user, ticket_id) == tickets[ticket_id].user_id = user

\* The rows a step appends to ticket_messages
NewMessages == SubSeq(messages', Len(messages) + 1, Len(messages'))

\* The comments update_status is called with
Comments == {NoComment, ReopenComment}

\* The row is a system message recording old -> new on the ticket
RecordsTransition(m, ticket_id, old, new) ==
    /\ m.ticket_id = ticket_id
    /\ m.is_from_staff
    /\ \E comment \in Comments : m.message = status_msg(old, new, comment)

\* The row is a system message: it starts as status_msg does
IsSystemMessage(m) ==
    m.message # <<>> /\ Head(m.message) = Head(status_msg(OPEN, OPEN, NoComment))

\* The order Open, InProgress, Waiting, Resolved, Closed
StatusRank(status) ==
    CASE status = OPEN -> 1
      [] status = IN_PROGRESS -> 2
      [] status = WAITING -> 3
      [] status = RESOLVED -> 4
      [] status = CLOSED -> 5

\* The transitions of the state machine: forward in the order, the implicit
\* Waiting -> InProgress, the reopen Resolved -> Open
ModelledTransition(old, new) ==
    \/ StatusRank(old) < StatusRank(new)
    \/ old = WAITING /\ new = IN_PROGRESS
    \/ old = RESOLVED /\ new = OPEN

-----------------------------------------------------------------------------
(* C1..C10 *)

\* C1: ticket creation always produces a ticket in Open state whose first
\* message's body equals the supplied description, whose author is the
\* requester and which is not staff-authored.
C1_Creation ==
    [][\A user \in UserIds, subject \in Subjects, description \in Descriptions,
          category \in Categories, is_anonymous \in BOOLEAN, suffix \in Suffixes :
        (/\ confirm_ticket(user, subject, description, category,
                           is_anonymous, suffix)
         /\ Len(tickets') = Len(tickets) + 1)
        => LET id == Len(tickets')
               thread == get_messages(messages', id, TRUE)
           IN /\ tickets'[id].status = OPEN
              /\ tickets'[id].user_id = user
              /\ thread # <<>>
              /\ thread[1].message = description
              /\ thread[1].user_id = user
              /\ ~thread[1].is_from_staff]_vars

\* C2: every change of a ticket's status is a modelled transition; in
\* particular the status of a Closed ticket never changes again.
C2_OnlyModelledTransitions ==
    [][\A id \in 1..Len(tickets) :
        tickets'[id].status # tickets[id].status
        => /\ ModelledTransition(tickets[id].status, tickets'[id].status)
           /\ tickets[id].status # CLOSED]_vars

\* C3: reopen changes a ticket to Open only when it is Resolved; on a ticket in
\* any other state it is rejected and leaves status and message log unchanged.
C3_ReopenOnlyResolved ==
    [][\A user \in UserIds, id \in 1..Len(tickets) :
        reopen_ticket(user, id)
        => IF tickets[id].status = RESOLVED
           THEN tickets'[id].status = OPEN
           ELSE UNCHANGED <<tickets, messages>>]_vars

\* C4 as claimed: every status transition, explicit or implicit, adds exactly
\* one system message recording old_status -> new_status to the ticket's log.
C4_EveryTransitionRecorded ==
    [][\A id \in 1..Len(tickets) :
        tickets'[id].status # tickets[id].status
        => /\ Len(NewMessages) = 1
           /\ RecordsTransition(NewMessages[1], id,
                                tickets[id].status, tickets'[id].status)]_vars

\* C4 as amended: every explicit status-set operation (staff set-status, close,
\* reopen) on a stored ticket adds exactly one system message recording
\* old_status -> new_status, old_status being the status right before the
\* operation; the implicit advances of add-message and assign record none: a
\* step that appends anything but the one reply is no reply step, and a step
\* that appends a message is no assign step.
C4_ExplicitTransitionRecorded ==
    [][/\ \A user \in UserIds, id \in 1..Len(tickets) :
            (\/ close_ticket(user, id)
             \/ reopen_ticket(user, id)
             \/ \E new_status \in status_change :
                    /\ admin_filter(user)
                    /\ callback_set_ticket_status(user, id, new_status))
            => /\ Len(NewMessages) = 1
               /\ NewMessages[1].user_id = user
               /\ RecordsTransition(NewMessages[1], id,
                                    tickets[id].status, tickets'[id].status)
       /\ NewMessages # <<>>
            => /\ \A user \in UserIds, text \in MessageTexts :
                    (\/ Len(NewMessages) > 1
                     \/ IsSystemMessage(NewMessages[1])
                     \/ NewMessages[1].message # strip(text))
                    => /\ ~process_ticket_reply(user, text)
                       /\ ~process_admin_ticket_reply(user, text)
               /\ \A user \in UserIds, id \in TicketIds :
                    ~callback_admin_ticket_assign(user, id)]_vars

\* C4 witness: a reopen of a Resolved ticket is recorded in the log
C4_Witness ==
    \E i \in 1..Len(messages) :
        /\ TicketExists(messages[i].ticket_id)
        /\ messages[i].message = status_msg(RESOLVED, OPEN, ReopenComment)

\* C5: resolved_at is set if and only if the status is Resolved or Closed, also
\* for a Resolved ticket that was reopened.
C5_ResolvedAtIffResolved ==
    \A id \in 1..Len(tickets) :
        (tickets[id].resolved_at # NoTime)
            <=> (tickets[id].status \in {RESOLVED, CLOSED})

\* C6: a reply submitted by a user who neither owns the ticket nor has a staff
\* role stores no message and changes no status.
C6_ReplyOnlyOwnerOrStaff ==
    [][\A user \in UserIds, text \in MessageTexts :
        (/\ process_ticket_reply(user, text)
         /\ TicketExists(fsm[user].reply_ticket_id)
         /\ ~Owner(user, fsm[user].reply_ticket_id)
         /\ ~Staff(user))
        => UNCHANGED <<tickets, messages>>]_vars

\* C7: a ticket's content is shown only to its owner or to staff; the view
\* request of any other user is answered with nothing of the ticket, for
\* anonymous and non-anonymous tickets alike.
C7_ViewOnlyOwnerOrStaff ==
    \A user \in UserIds, id \in 1..Len(tickets) :
        LET view == view_ticket_response(user, id)
            admin_view == admin_view_ticket_response(user, id)
        IN /\ view.result = "shown" => (Owner(user, id) \/ Staff(user))
           /\ admin_view.result = "shown" => Staff(user)
           /\ (~Owner(user, id) /\ ~Staff(user))
              => /\ view = Response("denied", <<"No access to this ticket">>)
                 /\ admin_view = Response("ignored", <<>>)

\* C7 witness: an anonymous ticket with a thread, its owner is shown it, and
\* a user who is neither its owner nor staff is denied
C7_Witness ==
    \E user, owner \in UserIds, id \in 1..Len(tickets) :
        /\ tickets[id].is_anonymous
        /\ Len(get_messages(messages, id, FALSE)) > 1
        /\ Owner(owner, id) /\ ~Staff(owner)
        /\ view_ticket_response(owner, id).result = "shown"
        /\ ~Owner(user, id) /\ ~Staff(user)
        /\ view_ticket_response(user, id).result = "denied"
        /\ admin_view_ticket_response(user, id).result = "ignored"

\* C8: the thread of an anonymous ticket shown to staff does not depend on who
\* owns the ticket: with any other owner it is rendered identically.
C8_AnonymousHidesOwner ==
    \A id \in 1..Len(tickets), other \in UserIds :
        tickets[id].is_anonymous
        => admin_view_text([tickets[id] EXCEPT !.user_id = other],
                           get_messages(messages, id, TRUE))
           = admin_view_text(tickets[id], get_messages(messages, id, TRUE))

\* C9: a ticket's status is set only by staff, the sole exception being the
\* reopen by its requester; the request of any other actor leaves status,
\* resolved_at and message log unchanged.
C9_StatusSetOnlyByStaff ==
    [][\A user \in UserIds, id \in 1..Len(tickets) :
        ~Staff(user)
        => /\ close_ticket(user, id) => UNCHANGED <<tickets, messages>>
           /\ (reopen_ticket(user, id) /\ ~Owner(user, id))
              => UNCHANGED <<tickets, messages>>
           /\ \A new_status \in status_change :
                callback_set_ticket_status(user, id, new_status)
                => UNCHANGED <<tickets, messages>>]_vars

\* C10: set-status, assign and add-message with a ticket id that matches no
\* stored ticket leave the store unchanged: no ticket is modified and no
\* message is stored for the missing id.
C10_MissingTicketNoEffect ==
    [][/\ \A user \in UserIds, id \in TicketIds :
            (/\ ~TicketExists(id)
             /\ \/ close_ticket(user, id)
                \/ reopen_ticket(user, id)
                \/ callback_admin_ticket_assign(user, id)
                \/ \E new_status \in status_change :
                        callback_set_ticket_status(user, id, new_status))
            => UNCHANGED <<tickets, messages>>
       /\ \A user \in UserIds, text \in MessageTexts :
            (/\ process_admin_ticket_reply(user, text)
             /\ fsm[user].admin_reply_ticket_id # NoId
             /\ ~TicketExists(fsm[user].admin_reply_ticket_id))
            => UNCHANGED <<tickets, messages>>
       /\ \A user \in UserIds, text \in MessageTexts :
            (/\ process_ticket_reply(user, text)
             /\ fsm[user].reply_ticket_id # NoId
             /\ ~TicketExists(fsm[user].reply_ticket_id))
            => UNCHANGED <<tickets, messages>>]_vars

-----------------------------------------------------------------------------
(* C11..C12 *)

\* The status add-message leaves a ticket in
StatusAfterMessage(old_status, is_from_staff) ==
    IF is_from_staff /\ old_status = OPEN THEN IN_PROGRESS
    ELSE IF ~is_from_staff /\ old_status = WAITING THEN IN_PROGRESS
    ELSE old_status

\* The step appends the one message and changes of the ticket only the status,
\* as StatusAfterMessage says
MessageAdded(ticket_id, user, body, is_from_staff) ==
    /\ NewMessages = <<TicketMessage(ticket_id, user, body, is_from_staff, FALSE)>>
    /\ tickets' = [tickets EXCEPT ![ticket_id].status =
                        StatusAfterMessage(@, is_from_staff)]

\* C11: after add-message on an existing ticket the status is InProgress if the
\* message is from staff and the ticket was Open, or if it is not from staff
\* and the ticket was Waiting; in every other case the status is unchanged; in
\* all cases the message is appended.
C11_AddMessageStatusRule ==
    [][\A user \in UserIds, text \in MessageTexts :
        /\ (/\ TicketExists(fsm[user].reply_ticket_id)
            /\ process_ticket_reply(user, text)
            /\ Len(strip(text)) >= 2)
           => MessageAdded(fsm[user].reply_ticket_id, user, strip(text),
                           Staff(user))
        /\ (/\ TicketExists(fsm[user].admin_reply_ticket_id)
            /\ process_admin_ticket_reply(user, text))
           => MessageAdded(fsm[user].admin_reply_ticket_id, user, strip(text),
                           TRUE)]_vars

\* C11 witness: a Waiting ticket was moved to InProgress by a message that is
\* not from staff, and the message is the last of the log
C11_Witness ==
    \E i \in 1..Len(messages) :
        /\ i > 1 /\ i = Len(messages)
        /\ TicketExists(messages[i].ticket_id)
        /\ ~messages[i].is_from_staff
        /\ tickets[messages[i].ticket_id].status = IN_PROGRESS
        /\ \E old \in TicketStatus :
                messages[i - 1].message = status_msg(old, WAITING, NoComment)

\* C12: assign on an existing ticket sets the assignee to the staff user and
\* moves the status to InProgress if and only if the ticket was Open; in every
\* other prior status the status is unchanged; resolved_at and the message
\* log are unchanged in every case.
C12_AssignEffect ==
    [][\A user \in UserIds, id \in 1..Len(tickets) :
        (admin_filter(user) /\ callback_admin_ticket_assign(user, id))
        => /\ tickets' = [tickets EXCEPT
                ![id].assigned_to_id = user,
                ![id].status = IF tickets[id].status = OPEN
                               THEN IN_PROGRESS ELSE tickets[id].status]
           /\ (tickets'[id].status # tickets[id].status)
                <=> (tickets[id].status = OPEN)
           /\ tickets'[id].resolved_at = tickets[id].resolved_at
           /\ messages' = messages]_vars

\* C12 witness: a ticket that was assigned while Closed stays Closed, with its
\* resolved_at
C12_Witness ==
    \E id \in 1..Len(tickets) :
        /\ tickets[id].assigned_to_id # NoId
        /\ tickets[id].status = CLOSED
        /\ tickets[id].resolved_at = Stamp
        /\ Len(get_messages(messages, id, TRUE)) = 2

-----------------------------------------------------------------------------
(* C13..C15 *)

\* The targeted users that reject the delivery
Rejecting == {k \in 1..Len(dispatch.targets) :
                transport[dispatch.targets[k]] # "ok"}

\* C13: a finished dispatch to N users of which M reject the delivery has
\* returned sent_count = N - M and (where it returns one) failed_count = M,
\* and every rejecting recipient is marked inactive.
C13_TallyAndInactive ==
    dispatch.pc = "done"
    => /\ dispatch.returned[1]
            = Len(dispatch.targets) - Cardinality(Rejecting)
       /\ Len(dispatch.returned) > 1
            => dispatch.returned[2] = Cardinality(Rejecting)
       /\ \A k \in Rejecting : ~users[dispatch.targets[k]].is_active

\* C14: during one dispatch every targeted recipient gets exactly one delivery
\* attempt, in the order of the batch and whatever the earlier attempts gave:
\* the attempts made so far are those to the first i - 1 recipients, a
\* finished dispatch has attempted each recipient once, and a running
\* dispatch finishes.
C14_OneAttemptEach ==
    /\ [](/\ dispatch.pc = "loop"
             => /\ dispatch.i <= Len(dispatch.targets) + 1
                /\ Len(attempts) = dispatch.i - 1
          /\ dispatch.pc = "done" => Len(attempts) = Len(dispatch.targets)
          /\ \A k \in 1..Len(attempts) :
                attempts[k] = users[dispatch.targets[k]].telegram_id)
    /\ (dispatch.pc = "loop" ~> dispatch.pc = "done")

\* C14 witness: a finished dispatch to three recipients of which the first
\* rejected the delivery, and all three were attempted
C14_Witness ==
    /\ dispatch.pc = "done"
    /\ Len(dispatch.targets) = 3
    /\ transport[dispatch.targets[1]] # "ok"
    /\ Len(attempts) = 3

\* The users a notification is for, every given filter restricting the set
Recipients(notification) ==
    {u \in 1..Len(users) :
        /\ users[u].is_active
        /\ users[u].notifications_enabled
        /\ notification.target_role # None
           => users[u].role = notification.target_role[1]
        /\ notification.target_group # None
           => users[u].group_name = notification.target_group[1]
        /\ notification.target_course # None
           => users[u].course = notification.target_course
        /\ notification.target_faculty # None
           => users[u].faculty = notification.target_faculty}

\* The elements of a sequence
Range(seq) == {seq[k] : k \in 1..Len(seq)}

\* C15: the recipients resolved for a dispatch are exactly the users that are
\* active, have notifications enabled and match every filter that is given; a
\* given filter restricts the set whatever its value, an omitted one does not.
\* Stated of the users send_notification resolves, and of
\* get_users_with_notifications called with the same filters.
C15_RecipientsMatchFilters ==
    [][\A notification \in Notifications :
        send_notification(notification)
        => /\ Range(dispatch'.targets) = Recipients(notification)
           /\ notification.target_role \in {None, Some("student")}
              => Range(get_users_with_notifications(
                            notification.target_role,
                            notification.target_group,
                            notification.target_course,
                            notification.target_faculty))
                 = Recipients(notification)]_vars

-----------------------------------------------------------------------------
(* C16 *)

Abs(n) == IF n < 0 THEN -n ELSE n

\* C16: the change_percent of a summary is 100 when yesterday's count is 0
\* and today's is greater than 0, is 0 when both counts are 0, and is
\* otherwise (today - yesterday) / yesterday * 100 rounded to one decimal:
\* the tenth nearest to the quotient (10 and 5 give -50.0).  Every pair of
\* counts has a summary: the division is made for no yesterday of 0.
C16_ChangePercent ==
    LET today_count == dashboard.requests_today
        yesterday_count == dashboard.requests_yesterday
        change == dashboard.requests_change_percent
    IN  /\ ENABLED get_dashboard_summary
        /\ change # <<>> =>
            /\ yesterday_count = 0 /\ today_count > 0 => change[1] = 1000
            /\ yesterday_count = 0 /\ today_count = 0 => change[1] = 0
            /\ yesterday_count > 0 =>
                2 * Abs(change[1] * yesterday_count
                        - 1000 * (today_count - yesterday_count))
                    <= yesterday_count
            /\ yesterday_count = 10 /\ today_count = 5 => change[1] = -500

\* A summary whose quotient is no whole number of tenths, one of the example
\* and one of a day after a day without requests are all made
C16_Witness ==
    /\ dashboard.requests_change_percent # <<>>
    /\ dashboard.requests_yesterday = 3
    /\ dashboard.requests_today = 5
    /\ dashboard.requests_change_percent[1] = 667

-----------------------------------------------------------------------------
(* C17..C18 *)

\* Whether the pair is a favorite after the first n finished handlers: the
\* last of them about the pair was an add
RECURSIVE FavoriteAfter(_, _, _)
FavoriteAfter(n, user_id, faq_item_id) ==
    IF n = 0 THEN FALSE
    ELSE IF /\ fav_log[n].user_id = user_id
            /\ fav_log[n].faq_item_id = faq_item_id
         THEN fav_log[n].op = "add"
         ELSE FavoriteAfter(n - 1, user_id, faq_item_id)

RecordsOf(user_id, faq_item_id) ==
    Cardinality(Conflicts(user_id, faq_item_id))

\* C17: with the handlers run one after the other, an add of a pair that is
\* no favorite returns success (True) and an add of a pair that is one, so
\* the second of two adds, returns the already-favorited signal (False) and
\* leaves the one favorite; a removal of a favorite returns success and a
\* removal of a pair that is none, so the second of two removals, returns
\* not-found (False) without an error and leaves the favorites as they were.
C17_AddRemoveTwice ==
    /\ \A n \in 1..Len(fav_log) :
        LET was == FavoriteAfter(n - 1, fav_log[n].user_id,
                                 fav_log[n].faq_item_id)
        IN  /\ fav_log[n].error = ""
            /\ fav_log[n].op = "add" => fav_log[n].returned = <<~was>>
            /\ fav_log[n].op = "remove" => fav_log[n].returned = <<was>>
    /\ Running = {} =>
        \A user_id \in FavUserIds, faq_item_id \in FaqItemIds :
            RecordsOf(user_id, faq_item_id) =
                IF FavoriteAfter(Len(fav_log), user_id, faq_item_id)
                THEN 1 ELSE 0

\* The same pair added twice and then removed twice
C17_Witness ==
    /\ Len(fav_log) = 4
    /\ \A n \in 1..4 : fav_log[n].user_id = 1 /\ fav_log[n].faq_item_id = 1
    /\ [n \in 1..4 |-> fav_log[n].op] = <<"add", "add", "remove", "remove">>
    /\ [n \in 1..4 |-> fav_log[n].returned]
            = <<(<<TRUE>>), (<<FALSE>>), (<<TRUE>>), (<<FALSE>>)>>
    /\ favorites = <<>>

\* C18: there is at most one favorite record per (user, FAQ item) pair in
\* every reachable state, also when two add handlers of the pair interleave
\* between the existence check and the insert; no add handler fails: each
\* reports success or already-favorited.
C18_OneRecordNoFailure ==
    /\ \A user_id \in FavUserIds, faq_item_id \in FaqItemIds :
            RecordsOf(user_id, faq_item_id) <= 1
    /\ \A n \in 1..Len(fav_log) :
            fav_log[n].op = "add" =>
                /\ fav_log[n].error = ""
                /\ fav_log[n].returned \in {<<TRUE>>, <<FALSE>>}

-----------------------------------------------------------------------------
(* C19..C20 *)

\* The table a search function reads
TableOf(fn) == IF fn = "FAQService.search" THEN faq_items ELSE documents

\* The active rows of the table whose score is at least the threshold
Qualifying(table, threshold) ==
    {k \in 1..Len(table) :
        table[k].is_active /\ table[k].score >= threshold}

\* Row a of the table is ranked before row b: by descending score, equal
\* scores in the order of the query
RankedBefore(table, a, b) ==
    \/ table[a].score > table[b].score
    \/ table[a].score = table[b].score /\ a < b

\* C19: whatever the query, the limit N and the threshold T, a search over
\* the FAQ items and a search over the documents returns exactly the first
\* N of the active candidates whose score is >= T, by descending score with
\* equal scores in the order of the candidates: no returned score is below
\* T, at most N results are returned, no candidate left out is ranked before
\* a returned one, and an empty pool gives an empty result.
C19_TopNAboveThreshold ==
    \A c \in 1..Len(search_calls) :
        LET call == search_calls[c]
            table == TableOf(call.fn)
            results == call.results
            pool == Qualifying(table, call.threshold)
            returned == {results[i].id : i \in 1..Len(results)}
        IN  /\ returned \subseteq pool
            /\ \A i \in 1..Len(results) :
                    /\ results[i].score = table[results[i].id].score
                    /\ results[i].score >= call.threshold
            /\ Len(results) = Min(call.limit, Cardinality(pool))
            /\ \A i, j \in 1..Len(results) :
                    i < j => RankedBefore(table, results[i].id, results[j].id)
            /\ \A k \in pool \ returned : \A i \in 1..Len(results) :
                    RankedBefore(table, results[i].id, k)
            /\ pool = {} => results = <<>>

\* A search of limit 1 over three active rows, where the best row is the
\* last one and a row is below the threshold
C19_Witness ==
    /\ Len(search_calls) = 1
    /\ search_calls[1].fn = "DocumentService.search"
    /\ search_calls[1].limit = 1
    /\ search_calls[1].threshold = 60
    /\ Len(documents) = 3
    /\ \A k \in 1..3 : documents[k].is_active
    /\ [k \in 1..3 |-> documents[k].score] = <<50, 40, 70>>
    /\ search_calls[1].results = <<[id |-> 3, score |-> 70]>>

\* The least length of a query each search handler takes
MinLength(handler) == IF handler = "auto_search_faq" THEN 3 ELSE 2

\* C20: a query whose trimmed length is below the minimum of its handler
\* (the explicit FAQ search, the document search, the automatic search)
\* never reaches a search function and appends no request log; of the
\* explicit searches a query of length 1 is refused and one of length 2 is
\* searched.
C20_ShortQueryNotSearched ==
    [][\A user \in SearchUserIds, text \in SearchTexts :
        LET n == Len(strip(text))
        IN  /\ process_faq_search(user, text) =>
                IF n < MinLength("process_faq_search")
                THEN UNCHANGED <<search_calls, request_logs>>
                ELSE Len(search_calls') = Len(search_calls) + 1
            /\ process_document_search(user, text) =>
                IF n < MinLength("process_document_search")
                THEN UNCHANGED <<search_calls, request_logs>>
                ELSE Len(search_calls') = Len(search_calls) + 1
            /\ auto_search_faq(user, text) /\ n < MinLength("auto_search_faq")
                => UNCHANGED <<search_calls, request_logs>>]_vars

\* The explicit FAQ search has refused a query and nothing was searched
C20_Witness ==
    /\ search_reply = "too short"
    /\ fsm[1].state = "FAQStates:searching"
    /\ search_calls = <<>>
    /\ request_logs = <<>>

-----------------------------------------------------------------------------
(* C21, C30 *)

\* C21: the view, helpful and not-helpful counters of an FAQ item never
\* decrease over the operations of the service, and only the view increment
\* and the rating change them: each adds exactly 1 to exactly one counter of
\* the item it addresses and leaves every other item as it was.
C21_CountersOnlyIncrement ==
    [][\A item_id \in DOMAIN faq_stats :
        LET old == faq_stats[item_id]
            new == faq_stats'[item_id]
            changed == {c \in CounterNames : new[c] # old[c]}
        IN  /\ \A c \in CounterNames : new[c] >= old[c]
            /\ changed # {} =>
                /\ \E c \in CounterNames :
                        changed = {c} /\ new[c] = old[c] + 1
                /\ \E task \in DOMAIN faq_tasks :
                        /\ faq_commit(task)
                        /\ faq_tasks[task].item_id = item_id
                        /\ changed = {faq_tasks[task].op}
                /\ \A other \in DOMAIN faq_stats \ {item_id} :
                        faq_stats'[other] = faq_stats[other]]_vars

\* C30: whatever the interleaving of the storage operations of the view
\* and rating handlers of an FAQ item, each of its counters is higher than
\* at the start by the number of the handlers that have ended: no increment
\* is lost to a concurrent one.
C30_NoLostIncrement ==
    \A item_id \in DOMAIN faq_stats, c \in CounterNames :
        faq_stats[item_id][c] = faq_done[item_id][c]

\* A view handler that loaded the item before another view of the item was
\* committed, and commits its own increment after it
C30_Witness ==
    /\ faq_tasks[1].pc = "updated"
    /\ faq_tasks[1].op = "views_count"
    /\ faq_tasks[1].item_id = 1
    /\ faq_tasks[1].loaded = 0
    /\ faq_stats[1].views_count = 1
    /\ faq_done[1].views_count = 1

-----------------------------------------------------------------------------
(* C25..C27 *)

\* C25: every handler path that appends a message or sets a status notifies
\* the counterpart: a staff reply and a status change by staff notify the
\* ticket's owner, a message of the owner notifies the staff.
C25_CounterpartNotified ==
    [][\A user \in UserIds, id \in 1..Len(tickets) :
        /\ \A text \in MessageTexts :
            (/\ fsm[user].admin_reply_ticket_id = id
             /\ messages' # messages
             /\ process_admin_ticket_reply(user, text))
            => tickets[id].user_id
                    \in admin_notified("process_admin_ticket_reply", id)
        /\ \A new_status \in status_change :
            (/\ admin_filter(user)
             /\ callback_set_ticket_status(user, id, new_status))
            => tickets[id].user_id
                    \in admin_notified("callback_set_ticket_status", id)
        /\ (Staff(user) /\ (close_ticket(user, id) \/ reopen_ticket(user, id)))
            => tickets[id].user_id \in tickets_notified("close_ticket")
                                       \cap tickets_notified("reopen_ticket")
        /\ \A text \in MessageTexts :
            (/\ fsm[user].reply_ticket_id = id
             /\ Owner(user, id) /\ ~Staff(user)
             /\ messages' # messages
             /\ process_ticket_reply(user, text))
            => /\ send_to_moderators # {}
                    => tickets_notified("process_ticket_reply") # {}
               /\ tickets_notified("process_ticket_reply")
                    \subseteq send_to_moderators]_vars

\* C26: the thread of a ticket is append-only and the description of a ticket
\* never changes, so the first message of every stored ticket equals its
\* description and is not staff-authored.
C26_ThreadAppendOnly ==
    [][/\ Len(messages') >= Len(messages)
       /\ SubSeq(messages', 1, Len(messages)) = messages
       /\ \A id \in 1..Len(tickets) :
            tickets'[id].description = tickets[id].description
       /\ \A id \in 1..Len(tickets') :
            LET thread == get_messages(messages', id, TRUE) IN
            /\ thread # <<>>
            /\ thread[1].message = tickets'[id].description
            /\ ~thread[1].is_from_staff]_vars

\* C27: the reply action is offered only for a ticket that is Open, InProgress
\* or Waiting, and a reply submitted for a ticket that is Resolved or Closed
\* stores no message.
C27_NoReplyToResolvedOrClosed ==
    [][/\ \A id \in 1..Len(tickets), staff \in BOOLEAN :
            <<"ticket_reply", id>> \in ticket_actions(id, tickets[id], staff)
            => tickets[id].status \in {OPEN, IN_PROGRESS, WAITING}
       /\ \A user \in UserIds, text \in MessageTexts :
            (/\ fsm[user].state = "replying"
             /\ TicketExists(fsm[user].reply_ticket_id)
             /\ tickets[fsm[user].reply_ticket_id].status \in {RESOLVED, CLOSED}
             /\ process_ticket_reply(user, text))
            => UNCHANGED <<tickets, messages>>]_vars

-----------------------------------------------------------------------------
(* C24 *)

\* C24: no two stored tickets share a ticket number, and a creation whose
\* generated number is the number of a stored ticket stores neither a ticket
\* nor a first message.
C24_NumbersUnique ==
    [][/\ \A i, j \in 1..Len(tickets') :
            tickets'[i].ticket_number = tickets'[j].ticket_number => i = j
       /\ \A user \in UserIds, subject \in Subjects,
             description \in Descriptions, category \in Categories,
             is_anonymous \in BOOLEAN, suffix \in NumberSuffixes :
            (/\ \E i \in 1..Len(tickets) :
                    tickets[i].ticket_number = ticket_number_of(suffix)
             /\ confirm_ticket(user, subject, description, category,
                               is_anonymous, suffix))
            => UNCHANGED <<tickets, messages>>]_vars

\* C24 witness: two tickets with different numbers are stored and a third
\* creation, which can draw the number of either, is possible
C24_Witness ==
    /\ Len(tickets) = 2
    /\ tickets[1].ticket_number # tickets[2].ticket_number
    /\ Len(messages) < MaxMessages

-----------------------------------------------------------------------------
(* C22, C28 *)

\* The step is an event of the user tg
EventOf(tg) ==
    \/ \E target_user_id \in TargetUserIds, new_role \in NewRoles :
            change_role_event(tg, target_user_id, new_role)
    \/ \E target_user_id \in TargetUserIds : ban_event(tg, target_user_id)
    \/ \E is_helpful \in BOOLEAN : rate_event(tg, 1, 1, is_helpful)

\* C22: the handler of every event of a user of the allow-list is given a
\* user whose committed role is Admin, on first contact and after any change
\* of the stored role; a user who is not in the allow-list is created as
\* Student and the middleware never changes their role: it changes only by a
\* set_role of an administrator.
C22_AllowListedIsAdmin ==
    [][/\ \A tg \in TelegramIds :
            EventOf(tg)
            => LET id == user_id_of(users, tg) IN
               /\ handled'.telegram_id = tg
               /\ tg \in ADMIN_IDS => handled'.role = "admin"
               /\ (tg \notin ADMIN_IDS /\ id = NoId)
                    => handled'.role = "student"
               /\ (tg \notin ADMIN_IDS /\ id # NoId)
                    => handled'.role = users[id].role
       /\ \A id \in 1..Len(users) :
            (users[id].telegram_id \notin ADMIN_IDS
             /\ users'[id].role # users[id].role)
            => /\ handled'.role = "admin"
               /\ \E tg \in TelegramIds :
                    change_role_event(tg, id, users'[id].role)]_vars

\* C22 witness: the stored role of a user of the allow-list was not Admin,
\* and the handler of their next event was given an Admin
C22_Witness ==
    /\ handled.telegram_id \in ADMIN_IDS
    /\ handled.restored
    /\ handled.role = "admin"

\* C28: no event of a blocked user reaches a handler that writes to the
\* store: a user whose is_active is false records no rating.
C28_BlockedUserWritesNothing ==
    [][\A tg \in TelegramIds, is_helpful \in BOOLEAN :
        (/\ user_id_of(users, tg) # NoId
         /\ ~users[user_id_of(users, tg)].is_active
         /\ rate_event(tg, 1, 1, is_helpful))
        => UNCHANGED counter_vars]_vars

-----------------------------------------------------------------------------
(* C29 *)

\* The messages of the user among the first k events
MessagesOf(user_id, k) ==
    {j \in 1..k : throttled[j].user_id = user_id /\ throttled[j].is_message}

\* The greatest element of a set of positive numbers, 0 for the empty set
Last(S) == IF S = {} THEN 0 ELSE CHOOSE j \in S : \A i \in S : i <= j

\* The messages of the user dropped in a row up to event k: since the user's
\* last message before k that passed or was answered with the warning
DroppedInARow(user_id, k) ==
    LET since == Last({j \in MessagesOf(user_id, k - 1) :
                        throttled[j].passed \/ throttled[j].warned})
    IN  Cardinality({j \in MessagesOf(user_id, k) :
                        j > since /\ ~throttled[j].passed})

-----------------------------------------------------------------------------
(* C23 *)

\* C23: every ticket created through the wizard has a subject of 5 to 200
\* characters and a description of 10 to 5000 characters; a text outside
\* these bounds is rejected: the step changes neither the store nor the data
\* of the wizard, and the wizard stays in its step.
C23_WizardValidates ==
    [][/\ \A id \in 1..Len(tickets') :
            /\ TextLen(tickets'[id].subject) \in 5..200
            /\ TextLen(tickets'[id].description) \in 10..5000
       /\ \A user \in WizardUserIds, text \in WizardTexts :
            /\ (/\ TextLen(text_strip(text)) \notin 5..200
                /\ enter_subject(user, text))
               => UNCHANGED <<tickets, messages, fsm, wizard>>
            /\ (/\ TextLen(text_strip(text)) \notin 10..5000
                /\ enter_description(user, text))
               => UNCHANGED <<tickets, messages, fsm, wizard>>]_vars

====
